---------------------------- MODULE Spec2Model ----------------------------
(***************************************************************************)
(* Directory scanning and metadata reconciliation of the music publisher:  *)
(* FileScanner (utils/file-scanner.js), MetadataScanner                    *)
(* (utils/metadata-scanner.js) and Publisher (services/publisher.js).      *)
(*                                                                         *)
(* A JavaScript string is a sequence of one-character strings, so that     *)
(* parsing, trimming and normalising are computed character by character.  *)
(* A JavaScript object is a function from its keys to its values; the      *)
(* values null and undefined are the sequences Null and Undefined, which   *)
(* no string equals.                                                       *)
(***************************************************************************)
EXTENDS Integers, Sequences, FiniteSets, TLC

VARIABLES
    filename,      \* SpecParse: the file name handed to extractTrackInfo
    fsInfo,        \* SpecParse: FileScanner.extractTrackInfo's result
    msInfo,        \* SpecParse: MetadataScanner.extractTrackInfo's result
    audioFiles,    \* SpecMatch: the audioFiles argument
    metadata,      \* SpecMatch: the parsed metadata.json
    matched,       \* SpecMatch: matchTracksWithMetadata's outcome
    validation,    \* SpecMatch, SpecValidate: the validator's outcome
    fs,            \* Spec, SpecAlbum: the directory tree under rootDir
    result,        \* Spec, SpecAlbum: the outcome of the last scanner call
    history,       \* SpecTwice: the earlier calls on the same scanners
    scan,          \* SpecRace: where a running scanMusicDirectory stands
    run            \* SpecRetry, SpecPoll, SpecSongs, SpecPublish: the running call

parseVars == <<filename, fsInfo, msInfo>>
matchVars == <<audioFiles, metadata, matched, validation>>
scanVars  == <<fs, result, history, scan>>
vars      == <<filename, fsInfo, msInfo, audioFiles, metadata, matched,
               validation, fs, result, history, scan, run>>

-----------------------------------------------------------------------------
(* Bounds of the model.                                                    *)

MaxNameLen == 4     \* characters of a file name before its extension
MaxTitleLen == 4    \* characters of a title handed to normalizeTitle
MaxAudio == 2       \* audio files handed to matchTracksWithMetadata
MaxMetaTracks == 2  \* tracks of a metadata.json
MaxFiles == 3       \* entries of an album directory

-----------------------------------------------------------------------------
(* JavaScript values.                                                      *)

\* null and undefined where a string is expected: no string equals them.
Null      == <<"null">>
Undefined == <<"undefined">>

\* A number where a string is expected, as JSON.parse gives for "album": 7:
\* truthy, and without the methods of a string.
Number7 == <<"number", "7">>

\* null where an object is expected.
NullObject == [null |-> TRUE]

\* The outcome of a call: not made yet, a returned value, a returned null, or
\* a thrown Error.
Pending      == [kind |-> "pending"]
Returned(v)  == [kind |-> "returned", value |-> v]
ReturnedNull == [kind |-> "null"]
Threw(msg)   == [kind |-> "threw", message |-> msg]

\* The elements of an array.
Range(seq) == { seq[i] : i \in DOMAIN seq }

\* The object spread {...a, ...b}: b's keys win.
Spread(a, b) ==
    [k \in (DOMAIN a) \cup (DOMAIN b) |-> IF k \in DOMAIN b THEN b[k] ELSE a[k]]

-----------------------------------------------------------------------------
(* Characters and strings.                                                 *)

Digits == {"0", "1", "2", "3", "4", "5", "6", "7", "8", "9"}

DigitVal(c) ==
    CASE c = "0" -> 0 [] c = "1" -> 1 [] c = "2" -> 2 [] c = "3" -> 3
      [] c = "4" -> 4 [] c = "5" -> 5 [] c = "6" -> 6 [] c = "7" -> 7
      [] c = "8" -> 8 [] c = "9" -> 9

\* The characters "." of a regular expression does not match.
LineTerminators == {"\n", "\r"}

\* \s of a regular expression, and what String.prototype.trim removes.
WhiteSpace == {" ", "\t"} \cup LineTerminators

\* [-\s] of the two track patterns.
Separators == {"-"} \cup WhiteSpace

\* String.prototype.toLowerCase on one character.
LowerChar(c) ==
    CASE c = "A" -> "a" [] c = "B" -> "b" [] c = "C" -> "c" [] c = "F" -> "f"
      [] c = "L" -> "l" [] c = "M" -> "m" [] c = "P" -> "p" [] c = "T" -> "t"
      [] c = "V" -> "v" [] c = "W" -> "w"
      [] OTHER -> c

toLowerCase(s) == [i \in 1..Len(s) |-> LowerChar(s[i])]

\* The number of leading characters of s that are in set.
RECURSIVE LeadingRun(_, _)
LeadingRun(s, set) ==
    IF s # <<>> /\ Head(s) \in set THEN 1 + LeadingRun(Tail(s), set) ELSE 0

\* The number of trailing characters of s that are in set.
RECURSIVE TrailingRun(_, _)
TrailingRun(s, set) ==
    IF s # <<>> /\ s[Len(s)] \in set
    THEN 1 + TrailingRun(SubSeq(s, 1, Len(s) - 1), set)
    ELSE 0

\* String.prototype.trim.
trim(s) ==
    LET lead == LeadingRun(s, WhiteSpace)
    IN  IF lead = Len(s) THEN <<>>
        ELSE SubSeq(s, lead + 1, Len(s) - TrailingRun(s, WhiteSpace))

\* s.replace(/\s+/g, ' '): every maximal run of white space becomes one space.
RECURSIVE CollapseWhiteSpace(_)
CollapseWhiteSpace(s) ==
    IF s = <<>> THEN <<>>
    ELSE IF Head(s) \in WhiteSpace
         THEN <<" ">> \o CollapseWhiteSpace(
                  SubSeq(s, LeadingRun(s, WhiteSpace) + 1, Len(s)))
         ELSE <<Head(s)>> \o CollapseWhiteSpace(Tail(s))

\* parseInt(s, 10) of a string of decimal digits.
RECURSIVE parseInt(_)
parseInt(s) ==
    IF s = <<>> THEN 0
    ELSE 10 * parseInt(SubSeq(s, 1, Len(s) - 1)) + DigitVal(s[Len(s)])

-----------------------------------------------------------------------------
(* path.extname and path.basename on a directory entry's name (no "/").    *)

\* The index of the last "." of s, 0 when there is none.
RECURSIVE LastDot(_)
LastDot(s) ==
    IF s = <<>> THEN 0
    ELSE IF s[Len(s)] = "." THEN Len(s)
    ELSE LastDot(SubSeq(s, 1, Len(s) - 1))

\* path.extname: from the last "." on; empty when there is no ".", when the
\* only "." starts the name, and for "..".
extname(s) ==
    LET dot == LastDot(s)
    IN  IF dot <= 1 \/ s = <<".", ".">> THEN <<>>
        ELSE SubSeq(s, dot, Len(s))

\* path.basename(s, ext): s without the suffix ext, unless ext is empty or
\* all of s.
basename(s, ext) ==
    IF ext # <<>> /\ Len(ext) < Len(s)
       /\ SubSeq(s, Len(s) - Len(ext) + 1, Len(s)) = ext
    THEN SubSeq(s, 1, Len(s) - Len(ext))
    ELSE s

\* s.slice(1)
slice1(s) == IF s = <<>> THEN <<>> ELSE Tail(s)

supportedFormats ==
    { <<"w", "a", "v">>, <<"f", "l", "a", "c">>, <<"m", "p", "3">> }

\* isAudioFile without toLowerCase().
isAudioFileCaseSensitive(name) == slice1(extname(name)) \in supportedFormats

isAudioFile(name) == slice1(toLowerCase(extname(name))) \in supportedFormats

-----------------------------------------------------------------------------
(* The two track patterns, matched as a backtracking matcher does: each    *)
(* greedy quantifier takes the longest run that lets the rest match.       *)

\* (.+)$ from position p on: at least one character, no line terminator.
RestMatches(s, p) ==
    /\ p <= Len(s)
    /\ \A q \in p..Len(s) : s[q] \notin LineTerminators

\* The greatest element of a non-empty set of naturals.
Greatest(S) == CHOOSE x \in S : \A y \in S : y <= x

\* FileScanner: /^(\d+)[-\s]*(.+)$/.  The splits <<d, j>>: d digits, then j
\* separators, then the rest.
FileSplits(s) ==
    { dj \in (1..Len(s)) \X (0..Len(s)) :
        /\ dj[1] + dj[2] < Len(s)
        /\ \A q \in 1..dj[1] : s[q] \in Digits
        /\ \A q \in (dj[1] + 1)..(dj[1] + dj[2]) : s[q] \in Separators
        /\ RestMatches(s, dj[1] + dj[2] + 1) }

\* The match a greedy matcher finds: <<group 1, group 2>>, or <<>>.
FileTrackMatch(s) ==
    LET splits == FileSplits(s)
    IN  IF splits = {} THEN <<>>
        ELSE LET d == Greatest({dj[1] : dj \in splits})
                 j == Greatest({dj[2] : dj \in {x \in splits : x[1] = d}})
             IN  <<SubSeq(s, 1, d), SubSeq(s, d + j + 1, Len(s))>>

\* MetadataScanner: /^(\d+)\s*[-\s]+(.+)$/.  The splits <<d, w, j>>: d digits,
\* w white space, j >= 1 separators, then the rest.
MetaSplits(s) ==
    { dwj \in (1..Len(s)) \X (0..Len(s)) \X (1..Len(s)) :
        /\ dwj[1] + dwj[2] + dwj[3] < Len(s)
        /\ \A q \in 1..dwj[1] : s[q] \in Digits
        /\ \A q \in (dwj[1] + 1)..(dwj[1] + dwj[2]) : s[q] \in WhiteSpace
        /\ \A q \in (dwj[1] + dwj[2] + 1)..(dwj[1] + dwj[2] + dwj[3]) :
               s[q] \in Separators
        /\ RestMatches(s, dwj[1] + dwj[2] + dwj[3] + 1) }

MetaTrackMatch(s) ==
    LET splits == MetaSplits(s)
    IN  IF splits = {} THEN <<>>
        ELSE LET d == Greatest({x[1] : x \in splits})
                 w == Greatest({x[2] : x \in {y \in splits : y[1] = d}})
                 j == Greatest({x[3] : x \in
                          {y \in splits : y[1] = d /\ y[2] = w}})
             IN  <<SubSeq(s, 1, d), SubSeq(s, d + w + j + 1, Len(s))>>

\* extractTrackInfo that forgets to trim the title.
TrackInfoUntrimmed(name, filePath, trackMatch) ==
    [ filename    |-> name,
      path        |-> filePath,
      trackNumber |-> IF trackMatch # <<>> THEN parseInt(trackMatch[1]) ELSE 1,
      title       |-> IF trackMatch # <<>> THEN trackMatch[2]
                      ELSE basename(name, extname(name)),
      format      |-> slice1(toLowerCase(extname(name))) ]

\* extractTrackInfo that trims the title of an unnumbered name too.
TrackInfoTrimsAll(name, filePath, trackMatch) ==
    [ filename    |-> name,
      path        |-> filePath,
      trackNumber |-> IF trackMatch # <<>> THEN parseInt(trackMatch[1]) ELSE 1,
      title       |-> IF trackMatch # <<>> THEN trim(trackMatch[2])
                      ELSE trim(basename(name, extname(name))),
      format      |-> slice1(toLowerCase(extname(name))) ]

\* The track object both extractTrackInfo methods build from the match.
TrackInfo(name, filePath, trackMatch) ==
    LET ext            == slice1(toLowerCase(extname(name)))
        nameWithoutExt == basename(name, extname(name))
    IN  [ filename    |-> name,
          path        |-> filePath,
          trackNumber |-> IF trackMatch # <<>> THEN parseInt(trackMatch[1])
                          ELSE 1,
          title       |-> IF trackMatch # <<>> THEN trim(trackMatch[2])
                          ELSE nameWithoutExt,
          format      |-> ext ]

FileExtractTrackInfo(name, filePath) ==
    TrackInfo(name, filePath, FileTrackMatch(basename(name, extname(name))))

MetaExtractTrackInfo(name, filePath) ==
    TrackInfo(name, filePath, MetaTrackMatch(basename(name, extname(name))))

-----------------------------------------------------------------------------
(* MetadataScanner.matchTracksWithMetadata and normalizeTitle.             *)

\* track.title, undefined when the object has no title.
TitleOf(track) == IF "title" \in DOMAIN track THEN track.title ELSE Undefined

\* normalizeTitle that forgets toLowerCase.
normalizeTitleCaseSensitive(title) ==
    IF title \in {Null, Undefined} THEN <<>>
    ELSE CollapseWhiteSpace(trim(title))

\* title?.toLowerCase().trim().replace(/\s+/g, ' ') || ''
normalizeTitle(title) ==
    IF title \in {Null, Undefined} THEN <<>>
    ELSE CollapseWhiteSpace(trim(toLowerCase(title)))

\* A lookup that returns the last metadata track of the title instead of
\* the first.
FindLastMetadataTrack(audioFile, metadataTracks) ==
    LET hits == { k \in 1..Len(metadataTracks) :
                    normalizeTitle(TitleOf(metadataTracks[k]))
                        = normalizeTitle(TitleOf(audioFile)) }
    IN  IF hits = {} THEN 0
        ELSE CHOOSE k \in hits : \A h \in hits : k >= h

\* metadataTracks.find(track => normalizeTitle(track.title) ===
\* normalizeTitle(audioFile.title)): the index of the first such track, 0
\* when find returns undefined.
FindMetadataTrack(audioFile, metadataTracks) ==
    LET hits == { k \in 1..Len(metadataTracks) :
                    normalizeTitle(TitleOf(metadataTracks[k]))
                        = normalizeTitle(TitleOf(audioFile)) }
    IN  IF hits = {} THEN 0
        ELSE CHOOSE k \in hits : \A h \in hits : k <= h

\* The keys matchTracksWithMetadata sets again from the audio file.
FileSystemKeys == {"filename", "path", "format", "trackNumber"}

\* The merge that lets the metadata track's fields win throughout.
MergeTrackMetadataWins(audioFile, metadataTrack) ==
    Spread(audioFile, metadataTrack)

\* { ...audioFile, ...metadataTrack, filename, path, format, trackNumber }
MergeTrack(audioFile, metadataTrack) ==
    Spread(Spread(audioFile, metadataTrack),
           [k \in FileSystemKeys |->
               IF k \in DOMAIN audioFile THEN audioFile[k] ELSE Undefined])

\* The unmatched branch that pushes the audio file as it is.
UnmatchedTrackBare(audioFile) == audioFile

\* { ...audioFile, isrc: null, explicit: false }
UnmatchedTrack(audioFile) ==
    Spread(audioFile, [isrc |-> Null, explicit |-> FALSE])

\* matchTracksWithMetadata(audioFiles, metadataTracks), metadataTracks an
\* array.
RECURSIVE matchTracksWithMetadata(_, _)
matchTracksWithMetadata(files, metadataTracks) ==
    IF files = <<>> THEN <<>>
    ELSE LET audioFile == Head(files)
             k         == FindMetadataTrack(audioFile, metadataTracks)
         IN  (IF k # 0 THEN <<MergeTrack(audioFile, metadataTracks[k])>>
              ELSE <<UnmatchedTrack(audioFile)>>)
             \o matchTracksWithMetadata(Tail(files), metadataTracks)

\* The call as scanSpecificAlbum makes it, with metadata.tracks: an undefined
\* metadataTracks makes metadataTracks.find a TypeError once there is an
\* audio file to look up.
MatchOutcome(files, md) ==
    IF "tracks" \in DOMAIN md
    THEN Returned(matchTracksWithMetadata(files, md.tracks))
    ELSE IF files = <<>> THEN Returned(<<>>)
    ELSE Threw("TypeError: Cannot read properties of undefined (reading 'find')")

-----------------------------------------------------------------------------
(* MetadataScanner.validateAlbumData.                                      *)

UpperLetters ==
    {"A", "B", "C", "D", "E", "F", "G", "H", "I", "J", "K", "L", "M", "N",
     "O", "P", "Q", "R", "S", "T", "U", "V", "W", "X", "Y", "Z"}

\* /^\d{12}$/.test(upc)
UpcPattern(upc) == Len(upc) = 12 /\ \A q \in 1..12 : upc[q] \in Digits

\* /^[A-Z]{2}[A-Z0-9]{3}\d{7}$/.test(isrc)
IsrcPattern(isrc) ==
    /\ Len(isrc) = 12
    /\ \A q \in 1..2 : isrc[q] \in UpperLetters
    /\ \A q \in 3..5 : isrc[q] \in UpperLetters \cup Digits
    /\ \A q \in 6..12 : isrc[q] \in Digits

\* !obj[key] for a string-valued key: absent, null, undefined or empty.
FalsyString(obj, key) ==
    key \notin DOMAIN obj \/ obj[key] \in {Null, Undefined, <<>>}

\* !value || value.trim() === ''
MissingName(obj, key) == FalsyString(obj, key) \/ trim(obj[key]) = <<>>

\* value.trim() is called on a truthy value that has no trim: a TypeError.
TrimThrows(obj, key) == ~FalsyString(obj, key) /\ obj[key] = Number7

\* The track-count check that compares the wrong way round: it reports
\* the counts when they agree.
TrackCountErrorsInverted(albumData, md) ==
    IF "tracks" \in DOMAIN albumData /\ "tracks" \in DOMAIN md
       /\ Len(albumData.tracks) = Len(md.tracks)
    THEN << [ error |-> "Track count mismatch",
              metadataTrackCount |-> Len(md.tracks),
              audioFileCount |-> Len(albumData.tracks) ] >>
    ELSE <<>>

\* `Track count mismatch: metadata has ${metadataTrackCount} tracks, found
\* ${audioFileCount} audio files`
TrackCountErrors(albumData, md) ==
    IF "tracks" \in DOMAIN albumData /\ "tracks" \in DOMAIN md
       /\ Len(albumData.tracks) # Len(md.tracks)
    THEN << [ error |-> "Track count mismatch",
              metadataTrackCount |-> Len(md.tracks),
              audioFileCount |-> Len(albumData.tracks) ] >>
    ELSE <<>>

\* The ISRC check that stops at the first malformed isrc.
RECURSIVE IsrcErrorsFirstOnly(_, _)
IsrcErrorsFirstOnly(tracks, index) ==
    IF index > Len(tracks) THEN <<>>
    ELSE IF ~FalsyString(tracks[index], "isrc")
            /\ ~IsrcPattern(tracks[index].isrc)
    THEN << [ error |-> "Invalid ISRC format",
              track |-> index,
              title |-> TitleOf(tracks[index]) ] >>
    ELSE IsrcErrorsFirstOnly(tracks, index + 1)

\* metadata.tracks.forEach((track, index) => ...): one error for each track
\* from index on whose isrc is truthy and fails the pattern.
RECURSIVE IsrcErrors(_, _)
IsrcErrors(tracks, index) ==
    IF index > Len(tracks) THEN <<>>
    ELSE (IF ~FalsyString(tracks[index], "isrc")
             /\ ~IsrcPattern(tracks[index].isrc)
          THEN << [ error |-> "Invalid ISRC format",
                    track |-> index,
                    title |-> TitleOf(tracks[index]) ] >>
          ELSE <<>>)
         \o IsrcErrors(tracks, index + 1)

Error(message) == [error |-> message]

\* The UPC check that forgets the anchor at the end: /^\d{12}/.
UpcErrorsUnanchored(md) ==
    IF ~FalsyString(md, "upc") /\ Len(md.upc) >= 12
       /\ UpcPattern(SubSeq(md.upc, 1, 12))
    THEN <<>>
    ELSE IF ~FalsyString(md, "upc") THEN <<Error("UPC must be 12 digits")>>
    ELSE <<>>

\* if (metadata.upc && !/^\d{12}$/.test(metadata.upc))
UpcErrors(md) ==
    IF ~FalsyString(md, "upc") /\ ~UpcPattern(md.upc)
    THEN <<Error("UPC must be 12 digits")>>
    ELSE <<>>

\* MetadataScanner.validateAlbumData(albumData): the returned
\* {valid, errors}, or the TypeError of metadata.artist.trim() or
\* metadata.album.trim() on a value that is not a string.
validateAlbumData(albumData) ==
    IF albumData = NullObject
    THEN Returned([valid |-> FALSE,
                   errors |-> <<Error("Album data is required")>>])
    ELSE IF "metadata" \notin DOMAIN albumData
            \/ albumData.metadata = NullObject
    THEN Returned([valid |-> FALSE,
                   errors |-> <<Error("Metadata is required")>>])
    ELSE
      LET md == albumData.metadata
          errors ==
              (IF MissingName(md, "artist")
               THEN <<Error("Artist name is required in metadata")>>
               ELSE <<>>)
              \o (IF MissingName(md, "album")
                  THEN <<Error("Album title is required in metadata")>>
                  ELSE <<>>)
              \o (IF "tracks" \notin DOMAIN md \/ Len(md.tracks) = 0
                  THEN <<Error("At least one track is required in metadata")>>
                  ELSE <<>>)
              \o TrackCountErrors(albumData, md)
              \o UpcErrors(md)
              \o (IF "tracks" \in DOMAIN md THEN IsrcErrors(md.tracks, 1)
                  ELSE <<>>)
      IN  IF TrimThrows(md, "artist")
          THEN Threw("TypeError: metadata.artist.trim is not a function")
          ELSE IF TrimThrows(md, "album")
          THEN Threw("TypeError: metadata.album.trim is not a function")
          ELSE Returned([valid |-> Len(errors) = 0, errors |-> errors])

\* The per-track checks of validateAlbumStructure, from index on: filename,
\* title and format, each with its own error.
RECURSIVE TrackStructureErrors(_, _)
TrackStructureErrors(tracks, index) ==
    IF index > Len(tracks) THEN <<>>
    ELSE LET track == tracks[index]
         IN  (IF FalsyString(track, "filename")
              THEN <<[error |-> "filename is required", track |-> index]>>
              ELSE <<>>)
             \o (IF FalsyString(track, "title")
                 THEN <<[error |-> "title is required", track |-> index]>>
                 ELSE <<>>)
             \o (IF FalsyString(track, "format")
                    \/ track.format \notin supportedFormats
                 THEN <<[error |-> "unsupported format", track |-> index,
                         format |-> IF "format" \in DOMAIN track
                                    THEN track.format ELSE Undefined]>>
                 ELSE <<>>)
             \o TrackStructureErrors(tracks, index + 1)

\* FileScanner.validateAlbumStructure(album).
validateAlbumStructure(album) ==
    IF album = NullObject
    THEN Returned([valid |-> FALSE,
                   errors |-> <<Error("Album object is required")>>])
    ELSE
      LET errors ==
              (IF MissingName(album, "artist")
               THEN <<Error("Artist name is required")>>
               ELSE <<>>)
              \o (IF MissingName(album, "album")
                  THEN <<Error("Album name is required")>>
                  ELSE <<>>)
              \o (IF "tracks" \notin DOMAIN album \/ Len(album.tracks) = 0
                  THEN <<Error("Album must contain at least one track")>>
                  ELSE <<>>)
              \o (IF "tracks" \in DOMAIN album
                  THEN TrackStructureErrors(album.tracks, 1)
                  ELSE <<>>)
      IN  IF TrimThrows(album, "artist")
          THEN Threw("TypeError: album.artist.trim is not a function")
          ELSE IF TrimThrows(album, "album")
          THEN Threw("TypeError: album.album.trim is not a function")
          ELSE Returned([valid |-> Len(errors) = 0, errors |-> errors])

-----------------------------------------------------------------------------
(* The variables a specification does not use stay at these values.        *)

ParseIdle == filename = <<>> /\ fsInfo = Pending /\ msInfo = Pending
MatchIdle ==
    audioFiles = <<>> /\ metadata = NullObject /\ matched = Pending
    /\ validation = Pending
ScanIdle  ==
    fs = NullObject /\ result = Pending /\ history = <<>> /\ scan = Pending

\* path.join of a directory and an entry name.
join(dir, name) == dir \o <<"/">> \o name

rootDir == <<"m">>

-----------------------------------------------------------------------------
(* SpecParse: extractTrackInfo of both scanners on every audio file name   *)
(* of up to MaxNameLen characters before the extension.                    *)

NameChars == {"0", "1", "-", " ", "a", "T", ".", "\n"}

\* All strings over chars of length lo..hi.
StringsOver(chars, lo, hi) ==
    UNION { [1..n -> chars] : n \in lo..hi }

AudioExtensions == { <<".", "w", "a", "v">>, <<".", "M", "P", "3">> }

AudioFileNames ==
    { n \o e : n \in StringsOver(NameChars, 1, MaxNameLen),
               e \in AudioExtensions }

InitParse ==
    /\ filename \in AudioFileNames
    /\ fsInfo = Pending
    /\ msInfo = Pending
    /\ MatchIdle
    /\ ScanIdle
    /\ run = Pending

FileExtract ==
    /\ fsInfo = Pending
    /\ fsInfo' = Returned(FileExtractTrackInfo(filename, join(rootDir, filename)))
    /\ UNCHANGED <<filename, msInfo, matchVars, scanVars, run>>

MetaExtract ==
    /\ msInfo = Pending
    /\ msInfo' = Returned(MetaExtractTrackInfo(filename, join(rootDir, filename)))
    /\ UNCHANGED <<filename, fsInfo, matchVars, scanVars, run>>

NextParse == FileExtract \/ MetaExtract

SpecParse == InitParse /\ [][NextParse]_vars

-----------------------------------------------------------------------------
(* Claims about extractTrackInfo, checked under SpecParse.                 *)

\* The file name without its extension, as the claims read it.
Stem(f) == SubSeq(f, 1, LastDot(f) - 1)

\* The results extractTrackInfo has returned so far, of either scanner.
ParsedInfos ==
    { o.value : o \in { x \in {fsInfo, msInfo} : x.kind = "returned" } }

\* <digits><one or more spaces/hyphens><rest>: the name is its whole leading
\* digit run, then at least one separator, then a non-empty rest on one line.
NumberedForm(name) ==
    LET d == LeadingRun(name, Digits)
    IN  /\ d >= 1
        /\ \E j \in 1..(Len(name) - d - 1) :
              /\ \A q \in (d + 1)..(d + j) : name[q] \in Separators
              /\ \A q \in (d + j + 1)..Len(name) :
                    name[q] \notin LineTerminators

\* The rest of a numbered name with the separators removed: what follows the
\* separators, without trailing white space; the last character when nothing
\* but separators follows the digits.
RestWithoutSeparators(name) ==
    LET d    == LeadingRun(name, Digits)
        t    == SubSeq(name, d + 1, Len(name))
        lead == LeadingRun(t, Separators)
    IN  IF lead < Len(t)
        THEN SubSeq(t, lead + 1, Len(t) - TrailingRun(t, WhiteSpace))
        ELSE IF t[Len(t)] \in WhiteSpace THEN <<>> ELSE <<t[Len(t)]>>

\* The decimal value of a digit string, most significant digit first.
RECURSIVE DecimalValue(_, _)
DecimalValue(s, acc) ==
    IF s = <<>> THEN acc ELSE DecimalValue(Tail(s), 10 * acc + DigitVal(Head(s)))

\* C5: for every audio file name <digits><separators><rest>.<ext>, both
\* scanners' extractTrackInfo return the whole leading digit run as the
\* trackNumber and the rest with the separators removed as the title.
C5_NumberedNameParsed ==
    \A info \in ParsedInfos :
        LET name == Stem(info.filename)
        IN  NumberedForm(name) =>
              /\ info.trackNumber =
                     DecimalValue(SubSeq(name, 1, LeadingRun(name, Digits)), 0)
              /\ info.title = RestWithoutSeparators(name)

\* Both scanners have parsed a name of two digits, one separator and "a".
C5_Witness ==
    /\ fsInfo.kind = "returned" /\ msInfo.kind = "returned"
    /\ NumberedForm(Stem(filename))
    /\ fsInfo.value.trackNumber = 10 /\ msInfo.value.trackNumber = 10
    /\ fsInfo.value.title = <<"a">> /\ msInfo.value.title = <<"a">>
    /\ Len(Stem(filename)) = 4

\* The leading-number pattern in its permissive form, the one FileScanner
\* applies: digits, optional separators, a non-empty remainder on one line.
\* The form with at least one separator, the one MetadataScanner applies,
\* is NumberedForm.
LeadingNumberPattern(name) ==
    \E d \in 1..(Len(name) - 1) :
        /\ \A q \in 1..d : name[q] \in Digits
        /\ \E j \in 0..(Len(name) - d - 1) :
              /\ \A q \in (d + 1)..(d + j) : name[q] \in Separators
              /\ \A q \in (d + j + 1)..Len(name) :
                    name[q] \notin LineTerminators

\* The name falls back: trackNumber 1 and the name itself as the title.
KeptVerbatim(outcome) ==
    /\ outcome.value.trackNumber = 1
    /\ outcome.value.title = Stem(outcome.value.filename)

\* C6: for every audio file name that does not match the scanner's
\* leading-number pattern, in particular every name that does not start
\* with a digit, extractTrackInfo returns (it does not throw) trackNumber 1
\* and the name without its extension, unchanged, as the title.
C6_UnnumberedNameKept ==
    /\ fsInfo # Pending =>
          /\ fsInfo.kind = "returned"
          /\ (\/ ~LeadingNumberPattern(Stem(filename))
              \/ Stem(filename)[1] \notin Digits) => KeptVerbatim(fsInfo)
    /\ msInfo # Pending =>
          /\ msInfo.kind = "returned"
          /\ (\/ ~NumberedForm(Stem(filename))
              \/ Stem(filename)[1] \notin Digits) => KeptVerbatim(msInfo)

\* Both scanners have parsed a name that starts with a space, and kept it.
C6_Witness ==
    /\ fsInfo.kind = "returned" /\ msInfo.kind = "returned"
    /\ ~LeadingNumberPattern(Stem(filename))
    /\ Stem(filename)[1] = " "
    /\ fsInfo.value.title = Stem(filename)
    /\ msInfo.value.title = Stem(filename)

-----------------------------------------------------------------------------
(* SpecMatch: matchTracksWithMetadata on lists of audio files and metadata *)
(* tracks, and validateAlbumData on the album record built from them.      *)
(* The inputs are either one audio file and one metadata track with every  *)
(* title of up to MaxTitleLen characters, or lists drawn from small pools. *)

albumDir == join(join(rootDir, <<"A", "1">>), <<"B", "1">>)

AudioTitleChars == {"a", "A", " "}
MetaTitleChars  == {"a", "b", "\t"}

Isrc1 == <<"U", "S", "X", "X", "X", "2", "5", "0", "0", "0", "0", "1">>
Isrc2 == <<"U", "S", "X", "X", "X", "2", "5", "0", "0", "0", "0", "2">>
Isrc3 == <<"G", "B", "A", "1", "Z", "2", "5", "0", "0", "0", "0", "3">>
IsrcInvalid == <<"I", "N", "V", "A", "L", "I", "D">>
Upc1 == <<"1", "2", "3", "4", "5", "6", "7", "8", "9", "0", "1", "2">>
UpcShort == <<"1", "2", "3", "4", "5">>

\* An audio file object with the given title.
AudioFileTitled(title) ==
    [ filename    |-> <<"1", ".", "w", "a", "v">>,
      path        |-> join(albumDir, <<"1", ".", "w", "a", "v">>),
      trackNumber |-> 1,
      title       |-> title,
      format      |-> <<"w", "a", "v">> ]

\* The audio files scanAudioFiles builds from these names: "1-a.wav",
\* "2-A b.mp3", "b.wav" and "3- .wav" (an empty title).
PoolFileNames ==
    { <<"1", "-", "a", ".", "w", "a", "v">>,
      <<"2", "-", "A", " ", "b", ".", "m", "p", "3">>,
      <<"b", ".", "w", "a", "v">>,
      <<"3", "-", " ", ".", "w", "a", "v">> }

AudioPool == { MetaExtractTrackInfo(f, join(albumDir, f)) : f \in PoolFileNames }

\* Metadata tracks: a title in another case, one with longer white space
\* and explicit set, one that repeats a title and carries file-system keys
\* of its own, one without a title, one no audio file has.
MetaTrackPool ==
    { [title |-> <<"A">>, isrc |-> Isrc1],
      [title |-> <<"a", " ", "\t", "B">>, isrc |-> Isrc2, explicit |-> TRUE],
      [title |-> <<"a">>, isrc |-> Null, explicit |-> FALSE,
       filename |-> <<"x">>, path |-> <<"y">>, format |-> <<"o", "g", "g">>,
       trackNumber |-> 9],
      [isrc |-> IsrcInvalid],
      [title |-> <<"c">>, isrc |-> Isrc3] }

\* All sequences over S of length 0..n.
SeqsUpTo(S, n) == UNION { [1..k -> S] : k \in 0..n }

\* The parsed metadata.json objects: with or without tracks and upc.
MetadataPool ==
    { [artist |-> a, album |-> <<"B", "1">>, tracks |-> t, upc |-> Upc1] :
        a \in {<<"A", "1">>, <<" ">>}, t \in SeqsUpTo(MetaTrackPool, MaxMetaTracks) }
    \cup
    { [artist |-> <<"A", "1">>, album |-> <<"B", "1">>, tracks |-> t,
       upc |-> UpcShort] : t \in SeqsUpTo(MetaTrackPool, MaxMetaTracks) }
    \cup
    { [artist |-> <<"A", "1">>, album |-> <<"B", "1">>, tracks |-> t] :
        t \in SeqsUpTo(MetaTrackPool, MaxMetaTracks) }
    \cup
    { [artist |-> <<"A", "1">>, album |-> <<"B", "1">>], NullObject }

InitMatchPair ==
    /\ \E t \in StringsOver(AudioTitleChars, 0, MaxTitleLen) :
          audioFiles = <<AudioFileTitled(t)>>
    /\ \E t \in StringsOver(MetaTitleChars, 0, MaxTitleLen) :
          metadata = [ artist |-> <<"A", "1">>, album |-> <<"B", "1">>,
                       tracks |-> <<[title |-> t, isrc |-> Isrc1]>> ]

InitMatchLists ==
    /\ audioFiles \in SeqsUpTo(AudioPool, MaxAudio)
    /\ metadata \in MetadataPool

InitMatch ==
    /\ InitMatchPair \/ InitMatchLists
    /\ matched = Pending
    /\ validation = Pending
    /\ ParseIdle
    /\ ScanIdle
    /\ run = Pending

\* const tracks = this.matchTracksWithMetadata(audioFiles, metadata.tracks)
Match ==
    /\ matched = Pending
    /\ metadata # NullObject
    /\ matched' = MatchOutcome(audioFiles, metadata)
    /\ UNCHANGED <<audioFiles, metadata, validation, parseVars, scanVars,
                   run>>

\* The album record scanSpecificAlbum returns for the matched tracks.
AlbumRecord(md, tracks) ==
    [ artist      |-> <<"A", "1">>,
      album       |-> <<"B", "1">>,
      path        |-> albumDir,
      metadata    |-> md,
      tracks      |-> tracks,
      totalTracks |-> Len(tracks) ]

\* The outcome of validateAlbumData(albumData), kept with its argument.
Validated(albumData) ==
    Spread(validateAlbumData(albumData), [of |-> albumData])

\* validateAlbumData on the scanned album record.
ValidateScanned ==
    /\ validation = Pending
    /\ matched.kind = "returned"
    /\ validation' = Validated(AlbumRecord(metadata, matched.value))
    /\ UNCHANGED <<audioFiles, metadata, matched, parseVars, scanVars, run>>

\* validateAlbumData on a record made by hand: the audio files as tracks
\* whatever the metadata, no tracks at all, or no album data.
ValidateHandMade ==
    /\ validation = Pending
    /\ matched = Pending
    /\ \E albumData \in { [metadata |-> metadata, tracks |-> audioFiles],
                          [metadata |-> metadata],
                          NullObject } :
          validation' = Validated(albumData)
    /\ UNCHANGED <<audioFiles, metadata, matched, parseVars, scanVars, run>>

NextMatch == Match \/ ValidateScanned \/ ValidateHandMade

SpecMatch == InitMatch /\ [][NextMatch]_vars

-----------------------------------------------------------------------------
(* Claims about matchTracksWithMetadata, checked under SpecMatch.          *)

\* The number of leading characters of s that are not white space.
RECURSIVE LeadingWord(_)
LeadingWord(s) ==
    IF s # <<>> /\ Head(s) \notin WhiteSpace THEN 1 + LeadingWord(Tail(s))
    ELSE 0

\* The words of a title: its maximal runs of characters other than white
\* space, in lower case.  A missing title has none.
RECURSIVE Words(_)
Words(title) ==
    IF title \in {Null, Undefined} THEN <<>>
    ELSE LET lead == LeadingRun(title, WhiteSpace)
             rest == SubSeq(title, lead + 1, Len(title))
             n    == LeadingWord(rest)
         IN  IF rest = <<>> THEN <<>>
             ELSE <<[q \in 1..n |-> LowerChar(rest[q])]>>
                  \o Words(SubSeq(rest, n + 1, Len(rest)))

\* The metadata tracks whose title is that of the audio file up to letter
\* case and white space.
SameTitleTracks(audioFile) ==
    { k \in 1..Len(metadata.tracks) :
        Words(TitleOf(metadata.tracks[k])) = Words(TitleOf(audioFile)) }

\* r holds every field of the metadata track other than the four
\* file-system fields.
CarriesMetadata(r, metadataTrack) ==
    \A key \in (DOMAIN metadataTrack) \ FileSystemKeys :
        key \in DOMAIN r /\ r[key] = metadataTrack[key]

\* r is the audio file with isrc null and explicit false.
IsUnmatched(r, audioFile) ==
    /\ DOMAIN r = (DOMAIN audioFile) \cup {"isrc", "explicit"}
    /\ r.isrc = Null
    /\ r.explicit = FALSE
    /\ \A key \in DOMAIN audioFile : r[key] = audioFile[key]

\* The positions both the argument and the result have.
MatchedPositions ==
    IF matched.kind = "returned"
    THEN (DOMAIN audioFiles) \cap (DOMAIN matched.value)
    ELSE {}

\* C7: an audio file is merged with a metadata track exactly when the two
\* titles are equal up to letter case, surrounding white space and the
\* length of white-space runs; with no such track it is left unmatched.
C7_MatchByNormalizedTitle ==
    \A i \in MatchedPositions :
        LET a == audioFiles[i]
            r == matched.value[i]
        IN  IF SameTitleTracks(a) = {}
            THEN IsUnmatched(r, a)
            ELSE \E k \in SameTitleTracks(a) :
                     CarriesMetadata(r, metadata.tracks[k])

\* "A  a" has been matched with the metadata track "a<tab>a".
C7_Witness ==
    /\ matched.kind = "returned"
    /\ Len(audioFiles) = 1
    /\ audioFiles[1].title = <<"A", " ", " ", "a">>
    /\ metadata.tracks[1].title = <<"a", "\t", "a">>
    /\ matched.value[1].isrc = Isrc1
    /\ matched.value[1].title = <<"a", "\t", "a">>

\* C8: in every matched pair the reconciled track's filename, path, format
\* and trackNumber are the audio file's, whatever the metadata track holds
\* under those names, and its other fields are the metadata track's.
C8_FileSystemFieldsWin ==
    \A i \in MatchedPositions :
        LET a == audioFiles[i]
            r == matched.value[i]
        IN  SameTitleTracks(a) # {} =>
              /\ \A key \in FileSystemKeys :
                     key \in DOMAIN r /\ r[key] = a[key]
              /\ \E k \in SameTitleTracks(a) :
                     /\ DOMAIN r = (DOMAIN a) \cup (DOMAIN metadata.tracks[k])
                     /\ CarriesMetadata(r, metadata.tracks[k])

\* "1-a.wav" has been matched with the metadata track that has a filename,
\* path, format and trackNumber of its own.
C8_Witness ==
    /\ matched.kind = "returned"
    /\ Len(audioFiles) >= 1 /\ Len(metadata.tracks) >= 1
    /\ audioFiles[1].title = <<"a">>
    /\ FileSystemKeys \subseteq DOMAIN metadata.tracks[1]
    /\ metadata.tracks[1].trackNumber = 9
    /\ matched.value[1].trackNumber = 1
    /\ matched.value[1].filename = audioFiles[1].filename
    /\ matched.value[1].isrc = Null

\* C9: the result has one track per audio file, in the order of audioFiles;
\* an audio file without a matching metadata track is kept with isrc null
\* and explicit false, and a metadata track no audio file matches appears
\* nowhere in the result.
C9_OneTrackPerAudioFile ==
    (matched # Pending /\ "tracks" \in DOMAIN metadata) =>
      /\ matched.kind = "returned"
      /\ Len(matched.value) = Len(audioFiles)
      /\ \A i \in MatchedPositions :
            LET a == audioFiles[i]
                r == matched.value[i]
            IN  /\ "filename" \in DOMAIN r /\ r.filename = a.filename
                /\ "path" \in DOMAIN r /\ r.path = a.path
                /\ SameTitleTracks(a) = {} =>
                      /\ "isrc" \in DOMAIN r /\ r.isrc = Null
                      /\ "explicit" \in DOMAIN r /\ r.explicit = FALSE
                      /\ r.title = a.title
      /\ \A k \in 1..Len(metadata.tracks) :
            LET m == metadata.tracks[k]
            IN  (\A i \in DOMAIN audioFiles : k \notin SameTitleTracks(audioFiles[i]))
                  => \A i \in MatchedPositions :
                        /\ ~("title" \in DOMAIN m /\ m.title # audioFiles[i].title
                             /\ matched.value[i].title = m.title)
                        /\ ~("isrc" \in DOMAIN m /\ m.isrc # Null
                             /\ "isrc" \in DOMAIN matched.value[i]
                             /\ matched.value[i].isrc = m.isrc)

\* Two audio files against two metadata tracks: "b.wav" found no track and
\* the track "c" found no audio file.
C9_Witness ==
    /\ matched.kind = "returned"
    /\ Len(audioFiles) = 2 /\ Len(metadata.tracks) = 2
    /\ audioFiles[1].title = <<"b">>
    /\ matched.value[1].isrc = Null /\ matched.value[1].explicit = FALSE
    /\ matched.value[2].isrc = Isrc1
    /\ metadata.tracks[1] = [title |-> <<"c">>, isrc |-> Isrc3]

\* C26: when several metadata tracks have the same normalized title, every
\* audio file of that title is merged with the first of them in the order
\* of metadataTracks; a later duplicate is never used, and the first one
\* serves every audio file of the title.
C26_FirstDuplicateWins ==
    \A i \in MatchedPositions :
        LET a == audioFiles[i]
            r == matched.value[i]
        IN  SameTitleTracks(a) # {} =>
              LET first == CHOOSE k \in SameTitleTracks(a) :
                               \A h \in SameTitleTracks(a) : k <= h
              IN  /\ DOMAIN r = (DOMAIN a) \cup (DOMAIN metadata.tracks[first])
                  /\ CarriesMetadata(r, metadata.tracks[first])

\* Two audio files titled "a" against the metadata tracks "A" (with an
\* ISRC) and "a" (with isrc null): both received the ISRC and the title of
\* the first.
C26_Witness ==
    /\ matched.kind = "returned"
    /\ Len(audioFiles) = 2
    /\ audioFiles[1].title = <<"a">> /\ audioFiles[2].title = <<"a">>
    /\ "tracks" \in DOMAIN metadata /\ Len(metadata.tracks) = 2
    /\ metadata.tracks[1] = [title |-> <<"A">>, isrc |-> Isrc1]
    /\ "title" \in DOMAIN metadata.tracks[2]
    /\ metadata.tracks[2].title = <<"a">>
    /\ metadata.tracks[2].isrc = Null
    /\ matched.value[1].isrc = Isrc1 /\ matched.value[1].title = <<"A">>
    /\ matched.value[2].isrc = Isrc1 /\ matched.value[2].title = <<"A">>

-----------------------------------------------------------------------------
(* Claims about validateAlbumData, checked under SpecMatch.                *)

\* The track-count errors of a validation result.
MismatchErrors(errors) ==
    { q \in DOMAIN errors : errors[q].error = "Track count mismatch" }

\* C10: validateAlbumData reports a track-count mismatch exactly when
\* metadata.tracks.length differs from the number of scanned tracks: then
\* valid is false and errors holds one message with both counts; otherwise
\* no such error is produced.
C10_TrackCountMismatch ==
    validation # Pending =>
      LET albumData == validation.of
          errors    == validation.value.errors
      IN  IF /\ albumData # NullObject
             /\ albumData.metadata # NullObject
             /\ "tracks" \in DOMAIN albumData
             /\ "tracks" \in DOMAIN albumData.metadata
             /\ Len(albumData.metadata.tracks) # Len(albumData.tracks)
          THEN /\ validation.value.valid = FALSE
               /\ Cardinality(MismatchErrors(errors)) = 1
               /\ \A q \in MismatchErrors(errors) :
                     /\ errors[q].metadataTrackCount
                            = Len(albumData.metadata.tracks)
                     /\ errors[q].audioFileCount = Len(albumData.tracks)
          ELSE MismatchErrors(errors) = {}

\* Metadata with two tracks against one audio file: the mismatch is
\* reported with the counts 2 and 1.
C10_Witness ==
    /\ validation # Pending
    /\ validation.of # NullObject
    /\ validation.of.metadata # NullObject
    /\ "tracks" \in DOMAIN validation.of
    /\ "tracks" \in DOMAIN validation.of.metadata
    /\ Len(validation.of.metadata.tracks) = 2
    /\ Len(validation.of.tracks) = 1
    /\ validation.value.valid = FALSE
    /\ \E q \in DOMAIN validation.value.errors :
          validation.value.errors[q] =
              [ error |-> "Track count mismatch",
                metadataTrackCount |-> 2, audioFileCount |-> 1 ]

-----------------------------------------------------------------------------
(* The directory tree read through fs/promises.  A directory is            *)
(* [type |-> "dir", entries |-> the entries in the order readdir lists     *)
(* them]; a file is [type |-> "file"], metadata.json with the outcome of   *)
(* JSON.parse on its content under json.  Every entry has a name.  A       *)
(* directory of type "locked" has no read and no search permission: stat   *)
(* on it succeeds, readdir on it and stat below it fail with EACCES.       *)

MetadataJson == <<"m", "e", "t", "a", "d", "a", "t", "a", ".", "j", "s", "o", "n">>

Absent == [type |-> "absent"]   \* stat and readdir fail with ENOENT
NotDir == [type |-> "notdir"]   \* a path through a file: ENOTDIR
Denied == [type |-> "denied"]   \* a path through a locked directory: EACCES

\* What stat(path).isDirectory() is true of.
DirectoryTypes == {"dir", "locked"}

\* The entry of dir called name.
Child(dir, name) ==
    IF dir.type = "dir"
    THEN IF \E i \in DOMAIN dir.entries : dir.entries[i].name = name
         THEN dir.entries[CHOOSE i \in DOMAIN dir.entries :
                              dir.entries[i].name = name]
         ELSE Absent
    ELSE IF dir.type = "absent" THEN Absent
    ELSE IF dir.type \in {"locked", "denied"} THEN Denied
    ELSE NotDir

\* The node at join(rootDir, artist, album).
AlbumNode(tree, artist, album) == Child(Child(tree, artist), album)

\* The node at the path of names under the root.
RECURSIVE NodeAt(_, _)
NodeAt(tree, path) ==
    IF path = <<>> THEN tree ELSE NodeAt(Child(tree, Head(path)), Tail(path))

\* The path of the names under rootDir.
RECURSIVE PathUnderRoot(_)
PathUnderRoot(path) ==
    IF path = <<>> THEN rootDir
    ELSE join(PathUnderRoot(SubSeq(path, 1, Len(path) - 1)), path[Len(path)])

\* getDirectories whose catch returns [] for every error.
getDirectoriesSwallowsAll(node) ==
    IF node.type = "dir"
    THEN Returned(
           LET dirs == SelectSeq(node.entries,
                           LAMBDA e : e.type \in DirectoryTypes)
           IN  [i \in DOMAIN dirs |-> dirs[i].name])
    ELSE Returned(<<>>)

\* getDirectories(dirPath) of both scanners, on the node at dirPath: the
\* names of the entries that are directories; [] when dirPath does not
\* exist; any other readdir error (ENOTDIR, EACCES) is thrown on.
getDirectories(node) ==
    IF node.type = "dir"
    THEN Returned(
           LET dirs == SelectSeq(node.entries,
                           LAMBDA e : e.type \in DirectoryTypes)
           IN  [i \in DOMAIN dirs |-> dirs[i].name])
    ELSE IF node.type = "absent" THEN Returned(<<>>)
    ELSE Threw(IF node.type \in {"locked", "denied"} THEN "EACCES"
               ELSE "ENOTDIR")

\* tracks.sort that leaves the tracks in the order they were pushed.
SortByTrackNumberSkipped(tracks) == tracks

\* tracks.sort((a, b) => a.trackNumber - b.trackNumber): Array.prototype.sort
\* is stable, so each track goes after the tracks sorted so far whose
\* trackNumber is not greater.
RECURSIVE SortByTrackNumber(_)
SortByTrackNumber(tracks) ==
    IF tracks = <<>> THEN <<>>
    ELSE LET front  == SortByTrackNumber(SubSeq(tracks, 1, Len(tracks) - 1))
             last   == tracks[Len(tracks)]
             before == SelectSeq(front,
                           LAMBDA t : t.trackNumber <= last.trackNumber)
             after  == SelectSeq(front,
                           LAMBDA t : t.trackNumber > last.trackNumber)
         IN  before \o <<last>> \o after

\* The loop of scanSpecificAlbum and of scanAudioFiles over readdir's
\* entries: a track for every regular file that isAudioFile accepts.
FileTracks(dir, dirPath) ==
    LET audio == SelectSeq(dir.entries,
                     LAMBDA e : e.type = "file" /\ isAudioFile(e.name))
    IN  [i \in DOMAIN audio |->
            FileExtractTrackInfo(audio[i].name, join(dirPath, audio[i].name))]

MetaTracks(dir, dirPath) ==
    LET audio == SelectSeq(dir.entries,
                     LAMBDA e : e.type = "file" /\ isAudioFile(e.name))
    IN  [i \in DOMAIN audio |->
            MetaExtractTrackInfo(audio[i].name, join(dirPath, audio[i].name))]

albumPathOf(artist, album) == join(join(rootDir, artist), album)

\* The nodes on which stat(albumPath) fails, whatever the error: the bare
\* catch of scanSpecificAlbum turns each of them into null.
StatFails == {"absent", "notdir", "denied"}

\* scanSpecificAlbum that returns null for an album directory in which it
\* finds no audio file.
FileScanSpecificAlbumSkipsEmpty(tree, artist, album) ==
    LET node      == AlbumNode(tree, artist, album)
        albumPath == albumPathOf(artist, album)
    IN  IF node.type \in StatFails THEN ReturnedNull
        ELSE IF node.type # "dir"
        THEN Threw("Failed to scan album")
        ELSE LET tracks == SortByTrackNumber(FileTracks(node, albumPath))
             IN  IF tracks = <<>> THEN ReturnedNull
                 ELSE Returned([ artist      |-> artist,
                                 album       |-> album,
                                 path        |-> albumPath,
                                 tracks      |-> tracks,
                                 totalTracks |-> Len(tracks) ])

\* FileScanner.scanSpecificAlbum(artist, album).
FileScanSpecificAlbum(tree, artist, album) ==
    LET node      == AlbumNode(tree, artist, album)
        albumPath == albumPathOf(artist, album)
    IN  IF node.type \in StatFails THEN ReturnedNull
        ELSE IF node.type # "dir"
        THEN Threw("Failed to scan album")
        ELSE LET tracks == SortByTrackNumber(FileTracks(node, albumPath))
             IN  Returned([ artist      |-> artist,
                            album       |-> album,
                            path        |-> albumPath,
                            tracks      |-> tracks,
                            totalTracks |-> Len(tracks) ])

\* loadMetadata that throws a parse failure on instead of returning null.
loadMetadataThrowsOnParse(node) ==
    LET file == Child(node, MetadataJson)
    IN  IF file.type # "file" THEN ReturnedNull
        ELSE IF ~file.json.valid THEN Threw("SyntaxError")
        ELSE IF file.json.value = NullObject THEN ReturnedNull
        ELSE Returned(file.json.value)

\* loadMetadata whose catch returns null for ENOENT only and throws every
\* other error on.
loadMetadataRethrows(node) ==
    LET file == Child(node, MetadataJson)
    IN  IF file.type = "absent" THEN ReturnedNull
        ELSE IF file.type # "file" THEN Threw("EACCES")
        ELSE IF ~file.json.valid THEN Threw("SyntaxError")
        ELSE IF file.json.value = NullObject THEN ReturnedNull
        ELSE Returned(file.json.value)

\* MetadataScanner.loadMetadata(albumPath), on the node at albumPath: the
\* parsed metadata.json; null when readFile fails (no such file, or not a
\* regular file) and when JSON.parse fails.
loadMetadata(node) ==
    LET file == Child(node, MetadataJson)
    IN  IF file.type # "file" THEN ReturnedNull
        ELSE IF ~file.json.valid THEN ReturnedNull
        ELSE IF file.json.value = NullObject THEN ReturnedNull
        ELSE Returned(file.json.value)

\* MetadataScanner.scanAudioFiles(albumPath), on the node at albumPath.
scanAudioFiles(node, albumPath) ==
    IF node.type = "dir"
    THEN Returned(SortByTrackNumber(MetaTracks(node, albumPath)))
    ELSE Threw("Failed to scan audio files")

\* scanSpecificAlbum that keeps an album without metadata, with metadata
\* null and the audio files as its tracks.
MetaScanSpecificAlbumKeepsAll(tree, artist, album) ==
    LET node      == AlbumNode(tree, artist, album)
        albumPath == albumPathOf(artist, album)
        loaded    == loadMetadata(node)
        files     == scanAudioFiles(node, albumPath)
    IN  IF node.type \in StatFails THEN ReturnedNull
        ELSE IF files.kind = "threw" THEN Threw("Failed to scan album")
        ELSE IF loaded.kind = "null"
        THEN Returned([ artist |-> artist, album |-> album,
                        path |-> albumPath, metadata |-> NullObject,
                        tracks |-> files.value,
                        totalTracks |-> Len(files.value) ])
        ELSE LET tracks == MatchOutcome(files.value, loaded.value)
             IN  IF tracks.kind = "threw" THEN Threw("Failed to scan album")
                 ELSE Returned([ artist |-> artist, album |-> album,
                                 path |-> albumPath,
                                 metadata |-> loaded.value,
                                 tracks |-> tracks.value,
                                 totalTracks |-> Len(tracks.value) ])

\* scanSpecificAlbum that takes totalTracks from metadata.tracks.
MetaScanSpecificAlbumCountsMetadata(tree, artist, album) ==
    LET node      == AlbumNode(tree, artist, album)
        albumPath == albumPathOf(artist, album)
        loaded    == loadMetadata(node)
        files     == scanAudioFiles(node, albumPath)
    IN  IF node.type \in StatFails THEN ReturnedNull
        ELSE IF loaded.kind = "threw" THEN Threw("Failed to scan album")
        ELSE IF loaded.kind = "null" THEN ReturnedNull
        ELSE IF files.kind = "threw" THEN Threw("Failed to scan album")
        ELSE LET tracks == MatchOutcome(files.value, loaded.value)
             IN  IF tracks.kind = "threw" THEN Threw("Failed to scan album")
                 ELSE Returned([ artist      |-> artist,
                                 album       |-> album,
                                 path        |-> albumPath,
                                 metadata    |-> loaded.value,
                                 tracks      |-> tracks.value,
                                 totalTracks |->
                                     IF "tracks" \in DOMAIN loaded.value
                                     THEN Len(loaded.value.tracks)
                                     ELSE Len(tracks.value) ])

\* MetadataScanner.scanSpecificAlbum(artist, album).
MetaScanSpecificAlbum(tree, artist, album) ==
    LET node      == AlbumNode(tree, artist, album)
        albumPath == albumPathOf(artist, album)
        loaded    == loadMetadata(node)
        files     == scanAudioFiles(node, albumPath)
    IN  IF node.type \in StatFails THEN ReturnedNull
        ELSE IF loaded.kind = "threw" THEN Threw("Failed to scan album")
        ELSE IF loaded.kind = "null" THEN ReturnedNull
        ELSE IF files.kind = "threw" THEN Threw("Failed to scan album")
        ELSE LET tracks == MatchOutcome(files.value, loaded.value)
             IN  IF tracks.kind = "threw" THEN Threw("Failed to scan album")
                 ELSE Returned([ artist      |-> artist,
                                 album       |-> album,
                                 path        |-> albumPath,
                                 metadata    |-> loaded.value,
                                 tracks      |-> tracks.value,
                                 totalTracks |-> Len(tracks.value) ])

\* The <<artist, album>> pairs the two loops of scanMusicDirectory visit, in
\* order: every directory of every directory of the root.
RECURSIVE AlbumPairs(_, _)
AlbumPairs(tree, artists) ==
    IF artists = <<>> THEN <<>>
    ELSE LET artist    == Head(artists)
             albumDirs == getDirectories(Child(tree, artist)).value
         IN  [i \in DOMAIN albumDirs |-> <<artist, albumDirs[i]>>]
             \o AlbumPairs(tree, Tail(artists))

\* The albums pushed for the outcomes of scanSpecificAlbum: those not null.
RECURSIVE CollectAlbums(_)
CollectAlbums(outcomes) ==
    IF outcomes = <<>> THEN <<>>
    ELSE (IF Head(outcomes).kind = "returned" THEN <<Head(outcomes).value>>
          ELSE <<>>)
         \o CollectAlbums(Tail(outcomes))

\* The end of scanMusicDirectory, given the outcomes of its scanSpecificAlbum
\* calls: a throw of any of them is thrown on, wrapped.
ScanOutcome(outcomes) ==
    IF \E i \in DOMAIN outcomes : outcomes[i].kind = "threw"
    THEN Threw("Failed to scan music directory")
    ELSE Returned(CollectAlbums(outcomes))

\* A scanMusicDirectory that keeps its albums array on the scanner: a later
\* call returns the albums of the earlier calls before its own.
FileScanMusicDirectoryKeepsAlbums(tree) ==
    LET artists == getDirectories(tree)
        earlier == IF \E q \in DOMAIN history :
                          /\ history[q].op = "FileScanner.scanMusicDirectory"
                          /\ history[q].kind = "returned"
                   THEN history[CHOOSE q \in DOMAIN history :
                            /\ history[q].op = "FileScanner.scanMusicDirectory"
                            /\ history[q].kind = "returned"].value
                   ELSE <<>>
    IN  IF artists.kind = "threw"
        THEN Threw("Failed to scan music directory")
        ELSE LET pairs == AlbumPairs(tree, artists.value)
                 now   == ScanOutcome([i \in DOMAIN pairs |->
                              FileScanSpecificAlbum(tree, pairs[i][1],
                                                    pairs[i][2])])
             IN  IF now.kind = "threw" THEN now
                 ELSE Returned(earlier \o now.value)

\* FileScanner.scanMusicDirectory().
FileScanMusicDirectory(tree) ==
    LET artists == getDirectories(tree)
    IN  IF artists.kind = "threw"
        THEN Threw("Failed to scan music directory")
        ELSE IF \E artist \in Range(artists.value) :
                    getDirectories(Child(tree, artist)).kind = "threw"
        THEN Threw("Failed to scan music directory")
        ELSE LET pairs == AlbumPairs(tree, artists.value)
             IN  ScanOutcome([i \in DOMAIN pairs |->
                     FileScanSpecificAlbum(tree, pairs[i][1], pairs[i][2])])

\* MetadataScanner.scanMusicDirectory().
MetaScanMusicDirectory(tree) ==
    LET artists == getDirectories(tree)
    IN  IF artists.kind = "threw"
        THEN Threw("Failed to scan music directory")
        ELSE IF \E artist \in Range(artists.value) :
                    getDirectories(Child(tree, artist)).kind = "threw"
        THEN Threw("Failed to scan music directory")
        ELSE LET pairs == AlbumPairs(tree, artists.value)
             IN  ScanOutcome([i \in DOMAIN pairs |->
                     MetaScanSpecificAlbum(tree, pairs[i][1], pairs[i][2])])

-----------------------------------------------------------------------------
(* Publisher.detectPlatform.                                               *)

\* this.metadataScanner.hasMetadataFile(directoryPath): the scanner is a
\* MetadataScanner, whose class defines scanMusicDirectory,
\* scanSpecificAlbum, loadMetadata, scanAudioFiles, matchTracksWithMetadata,
\* normalizeTitle, validateAlbumData, getDirectories, isAudioFile,
\* extractTrackInfo and createSampleMetadata and no hasMetadataFile, so the
\* property is undefined and calling it is a TypeError.
CallHasMetadataFile(node) ==
    Threw("TypeError: this.metadataScanner.hasMetadataFile is not a function")

\* Publisher.detectPlatform(directoryPath), on the node at directoryPath.
detectPlatform(node) ==
    LET hasMetadataFile == CallHasMetadataFile(node)
    IN  IF hasMetadataFile.kind = "threw"
        THEN Threw("Failed to detect platform")
        ELSE Returned(IF hasMetadataFile.value THEN "tunecore" ELSE "fuga")

\* track => ({ file: track.file, ...track.metadata }): a property the track
\* does not have reads as undefined, and spreading undefined adds nothing.
PublishTrack(track) ==
    LET entry == [file |-> IF "file" \in DOMAIN track THEN track.file
                           ELSE Undefined]
    IN  IF "metadata" \in DOMAIN track THEN Spread(entry, track.metadata)
        ELSE entry

\* Publisher.getPublishOptions(scanResult, platform), scanResult being the
\* album record of a scanSpecificAlbum: an object, which has no map method.
getPublishOptions(scanResult, platform) ==
    IF platform = "tunecore"
    THEN LET tracks  == [i \in DOMAIN scanResult.tracks |->
                            PublishTrack(scanResult.tracks[i])]
             options == [tracks |-> tracks]
         IN  Returned(IF "metadata" \in DOMAIN scanResult
                      THEN Spread(scanResult.metadata, options)
                      ELSE options)
    ELSE IF platform = "fuga"
    THEN Threw("TypeError: scanResult.map is not a function")
    ELSE Threw("Unsupported platform")

-----------------------------------------------------------------------------
(* Spec and SpecAlbum: one call of a scanner or of detectPlatform on a     *)
(* directory tree.  Spec draws a tree of up to two artists with up to two  *)
(* albums each, the albums from a pool of directory contents; SpecAlbum    *)
(* draws one album whose listing is any sequence of up to MaxFiles         *)
(* entries, in any order.                                                  *)

Artist1 == <<"A", "1">>
Artist2 == <<"A", "2">>
Album1  == <<"B", "1">>
Album2  == <<"B", "2">>
ArtistNames == {Artist1, Artist2}
AlbumNames  == {Album1, Album2}

File(name) == [name |-> name, type |-> "file"]

\* metadata.json whose content JSON.parse turns into value.
MetadataFile(value) ==
    [ name |-> MetadataJson, type |-> "file",
      json |-> [valid |-> TRUE, value |-> value] ]

\* metadata.json whose content is not JSON.
BrokenMetadataFile ==
    [name |-> MetadataJson, type |-> "file", json |-> [valid |-> FALSE]]

Wav1a  == <<"1", "-", "a", ".", "w", "a", "v">>
Wav2b  == <<"2", "-", "b", ".", "w", "a", "v">>
Mp3b   == <<"b", ".", "m", "p", "3">>
Mp31a  == <<"1", "a", ".", "m", "p", "3">>
Wav10c == <<"1", "0", "-", "c", ".", "W", "A", "V">>
Wav3d  == <<"3", "-", "d", ".", "w", "a", "v">>
CoverJpg == <<"c", "o", "v", "e", "r", ".", "j", "p", "g">>

\* A metadata.json for the tracks "a" and "b".
MetadataAB ==
    [ artist |-> Artist1, album |-> Album1, upc |-> Upc1,
      tracks |-> << [title |-> <<"A">>, isrc |-> Isrc1],
                    [title |-> <<"b">>, isrc |-> Isrc2] >> ]

\* A metadata.json without a tracks list.
MetadataNoTracks == [artist |-> Artist1, album |-> Album1]

\* What an <<artist, album>> path can be in Spec.
AlbumSlots ==
    { Absent,
      [type |-> "file"],
      [type |-> "dir", entries |-> <<>>],
      [type |-> "dir", entries |-> <<File(Wav1a)>>],
      [type |-> "dir", entries |->
          <<MetadataFile(MetadataAB), File(Wav2b), File(CoverJpg), File(Wav1a)>>],
      [type |-> "dir", entries |-> <<BrokenMetadataFile, File(Wav1a)>>],
      [type |-> "dir", entries |-> <<MetadataFile(NullObject), File(Mp3b)>>],
      [type |-> "dir", entries |->
          <<File(Wav1a), MetadataFile(MetadataNoTracks)>>],
      [type |-> "locked", entries |->
          <<MetadataFile(MetadataAB), File(Wav1a)>>] }

\* The listing of a directory with the two slots under the two names; an
\* absent slot is not listed.
Named(slot, name) == Spread(slot, [name |-> name])

DirOf(name1, slot1, name2, slot2) ==
    [ type |-> "dir",
      entries |->
          (IF slot1 = Absent THEN <<>> ELSE <<Named(slot1, name1)>>)
          \o (IF slot2 = Absent THEN <<>> ELSE <<Named(slot2, name2)>>) ]

ArtistSlots ==
    { Absent, [type |-> "file"],
      [type |-> "locked", entries |->
          <<[type |-> "dir", name |-> Album1, entries |-> <<File(Wav1a)>>]>>] }
    \cup { DirOf(Album1, b1, Album2, b2) : b1 \in AlbumSlots, b2 \in AlbumSlots }

Trees ==
    { Absent, [type |-> "file"] }
    \cup { DirOf(Artist1, a1, Artist2, a2) :
             a1 \in ArtistSlots, a2 \in ArtistSlots }

\* The entries an album directory can list in SpecAlbum: audio files (two
\* with the number 1, one without a number, one numbered without a
\* separator, one with an upper-case extension), a picture, a directory
\* with an audio file's name, a file called ".wav", an audio file whose
\* name is a number and a space, and metadata.json in three states.
AlbumEntryPool ==
    { File(Wav1a), File(Wav2b), File(Mp3b), File(Mp31a), File(Wav10c),
      File(CoverJpg), File(<<".", "w", "a", "v">>),
      File(<<"1", " ", ".", "w", "a", "v">>),
      [name |-> Wav3d, type |-> "dir", entries |-> <<>>],
      MetadataFile(MetadataAB), MetadataFile(MetadataNoTracks),
      BrokenMetadataFile }

\* The listings of up to MaxFiles entries with different names.
AlbumListings ==
    { l \in SeqsUpTo(AlbumEntryPool, MaxFiles) :
        \A i, j \in DOMAIN l : i # j => l[i].name # l[j].name }

SingleAlbumTrees ==
    { DirOf(Artist1, DirOf(Album1, [type |-> "dir", entries |-> l],
                           Album2, Absent),
            Artist2, Absent) : l \in AlbumListings }

Init ==
    /\ fs \in Trees
    /\ result = Pending
    /\ history = <<>>
    /\ scan = Pending
    /\ ParseIdle
    /\ MatchIdle
    /\ run = Pending

InitAlbum ==
    /\ fs \in SingleAlbumTrees
    /\ result = Pending
    /\ history = <<>>
    /\ scan = Pending
    /\ ParseIdle
    /\ MatchIdle
    /\ run = Pending

\* The outcome of a call, kept with the method and its arguments.
CallOf(op, args, outcome) == Spread(outcome, [op |-> op, args |-> args])

FileScanAll ==
    /\ result = Pending
    /\ result' = CallOf("FileScanner.scanMusicDirectory", <<>>,
                        FileScanMusicDirectory(fs))
    /\ UNCHANGED <<fs, history, scan, parseVars, matchVars, run>>

MetaScanAll ==
    /\ result = Pending
    /\ result' = CallOf("MetadataScanner.scanMusicDirectory", <<>>,
                        MetaScanMusicDirectory(fs))
    /\ UNCHANGED <<fs, history, scan, parseVars, matchVars, run>>

FileScanAlbum ==
    /\ result = Pending
    /\ \E artist \in ArtistNames, album \in AlbumNames :
          result' = CallOf("FileScanner.scanSpecificAlbum", <<artist, album>>,
                           FileScanSpecificAlbum(fs, artist, album))
    /\ UNCHANGED <<fs, history, scan, parseVars, matchVars, run>>

MetaScanAlbum ==
    /\ result = Pending
    /\ \E artist \in ArtistNames, album \in AlbumNames :
          result' = CallOf("MetadataScanner.scanSpecificAlbum",
                           <<artist, album>>,
                           MetaScanSpecificAlbum(fs, artist, album))
    /\ UNCHANGED <<fs, history, scan, parseVars, matchVars, run>>

MetaScanAudioFiles ==
    /\ result = Pending
    /\ \E artist \in ArtistNames, album \in AlbumNames :
          result' = CallOf("MetadataScanner.scanAudioFiles", <<artist, album>>,
                           scanAudioFiles(AlbumNode(fs, artist, album),
                                          albumPathOf(artist, album)))
    /\ UNCHANGED <<fs, history, scan, parseVars, matchVars, run>>

MetaLoadMetadata ==
    /\ result = Pending
    /\ \E artist \in ArtistNames, album \in AlbumNames :
          result' = CallOf("MetadataScanner.loadMetadata", <<artist, album>>,
                           loadMetadata(AlbumNode(fs, artist, album)))
    /\ UNCHANGED <<fs, history, scan, parseVars, matchVars, run>>

DetectPlatform ==
    /\ result = Pending
    /\ \E artist \in ArtistNames, album \in AlbumNames :
          result' = CallOf("Publisher.detectPlatform", <<artist, album>>,
                           detectPlatform(AlbumNode(fs, artist, album)))
    /\ UNCHANGED <<fs, history, scan, parseVars, matchVars, run>>

\* getPublishOptions on the album scanned by the scanner of the platform
\* (the metadata scanner for 'tunecore', the file scanner otherwise).
GetPublishOptions ==
    /\ result = Pending
    /\ \E artist \in ArtistNames, album \in AlbumNames,
          platform \in {"tunecore", "fuga", "spotify"} :
          LET scanned == IF platform = "tunecore"
                         THEN MetaScanSpecificAlbum(fs, artist, album)
                         ELSE FileScanSpecificAlbum(fs, artist, album)
          IN  /\ scanned.kind = "returned"
              /\ result' = CallOf("Publisher.getPublishOptions",
                                  <<artist, album, platform>>,
                                  getPublishOptions(scanned.value, platform))
    /\ UNCHANGED <<fs, history, scan, parseVars, matchVars, run>>

\* validateAlbumStructure on the album FileScanner.scanSpecificAlbum
\* returned.
ValidateScannedAlbum ==
    /\ result = Pending
    /\ \E artist \in ArtistNames, album \in AlbumNames :
          LET scanned == FileScanSpecificAlbum(fs, artist, album)
          IN  /\ scanned.kind = "returned"
              /\ result' = CallOf("FileScanner.validateAlbumStructure",
                                  <<artist, album>>,
                                  validateAlbumStructure(scanned.value))
    /\ UNCHANGED <<fs, history, scan, parseVars, matchVars, run>>

\* getDirectories(dirPath) on the root, an artist path or an album path;
\* the error of readdir that it throws on names dirPath as its path.
GetDirectories ==
    /\ result = Pending
    /\ \E path \in {<<>>} \cup { <<a>> : a \in ArtistNames }
                          \cup (ArtistNames \X AlbumNames) :
          LET outcome == getDirectories(NodeAt(fs, path))
          IN  result' = CallOf("getDirectories", path,
                               IF outcome.kind = "threw"
                               THEN Spread(outcome,
                                           [path |-> PathUnderRoot(path)])
                               ELSE outcome)
    /\ UNCHANGED <<fs, history, scan, parseVars, matchVars, run>>

Next ==
    \/ FileScanAll
    \/ MetaScanAll
    \/ FileScanAlbum
    \/ MetaScanAlbum
    \/ MetaScanAudioFiles
    \/ MetaLoadMetadata
    \/ DetectPlatform
    \/ GetPublishOptions
    \/ ValidateScannedAlbum
    \/ GetDirectories

Spec == Init /\ [][Next]_vars

SpecAlbum == InitAlbum /\ [][Next]_vars

-----------------------------------------------------------------------------
(* Claims about detectPlatform and the scans, checked under Spec and       *)
(* SpecAlbum.                                                              *)

\* The node at the <<artist, album>> path the last call was made on.
CalledNode == AlbumNode(fs, result.args[1], result.args[2])

\* Whether the directory holds a metadata.json: what the platform rule asks.
HasMetadataJson(node) == Child(node, MetadataJson).type = "file"

\* C1: detectPlatform returns 'tunecore' for every directory that contains
\* a metadata.json and 'fuga' for every existing directory that does not,
\* and never returns anything else.
C1_DetectPlatform ==
    (result # Pending /\ result.op = "Publisher.detectPlatform") =>
      /\ CalledNode.type = "dir" =>
            /\ result.kind = "returned"
            /\ result.value = (IF HasMetadataJson(CalledNode) THEN "tunecore"
                               ELSE "fuga")
      /\ result.kind = "returned" => result.value \in {"tunecore", "fuga"}

\* The directory has a metadata.json that JSON.parse turns into an object.
HasParsableMetadata(node) ==
    /\ node.type = "dir"
    /\ \E i \in DOMAIN node.entries :
          /\ node.entries[i].name = MetadataJson
          /\ node.entries[i].type = "file"
          /\ node.entries[i].json.valid
          /\ node.entries[i].json.value # NullObject

\* The <<artist, album>> pairs of the tree in which both are directories.
AlbumDirectories ==
    { p \in ArtistNames \X AlbumNames : AlbumNode(fs, p[1], p[2]).type = "dir" }

\* The <<artist, album>> pairs of the records a scanMusicDirectory returned.
ReturnedAlbums ==
    { <<result.value[i].artist, result.value[i].album>> :
        i \in DOMAIN result.value }

\* C2: MetadataScanner.scanMusicDirectory returns no album whose
\* metadata.json is missing or unparsable: every record has a metadata
\* object, and an album directory without one is absent from the result,
\* though FileScanner.scanMusicDirectory returns it.
C2_ScanExcludesAlbumsWithoutMetadata ==
    /\ (result # Pending /\ result.op = "MetadataScanner.scanMusicDirectory"
        /\ result.kind = "returned") =>
          /\ \A i \in DOMAIN result.value :
                /\ result.value[i].metadata # NullObject
                /\ HasParsableMetadata(AlbumNode(fs, result.value[i].artist,
                                                 result.value[i].album))
          /\ \A p \in AlbumDirectories :
                ~HasParsableMetadata(AlbumNode(fs, p[1], p[2]))
                    => p \notin ReturnedAlbums
    /\ (result # Pending /\ result.op = "FileScanner.scanMusicDirectory"
        /\ result.kind = "returned") =>
          \A p \in AlbumDirectories :
              ~HasParsableMetadata(AlbumNode(fs, p[1], p[2]))
                  => p \in ReturnedAlbums

\* MetadataScanner.scanMusicDirectory returned the one album with a
\* metadata.json and left out the album that holds only "1-a.wav".
C2_Witness ==
    /\ result # Pending
    /\ result.op = "MetadataScanner.scanMusicDirectory"
    /\ result.kind = "returned"
    /\ Len(result.value) = 1
    /\ result.value[1].artist = Artist1
    /\ HasParsableMetadata(AlbumNode(fs, Artist1, Album1))
    /\ AlbumNode(fs, Artist2, Album1) =
           [type |-> "dir", name |-> Album1, entries |-> <<File(Wav1a)>>]

\* C3 as stated: MetadataScanner.scanSpecificAlbum on an existing album
\* directory whose metadata.json is missing or unparsable does not return
\* null; it returns null only when the album directory is absent.
C3_NullOnlyWhenAbsent ==
    (result # Pending /\ result.op = "MetadataScanner.scanSpecificAlbum") =>
      /\ CalledNode.type = "dir" => result.kind # "null"
      /\ result.kind = "null" => CalledNode.type \in {"absent", "notdir"}

\* C3 as amended: MetadataScanner.scanSpecificAlbum returns null exactly
\* when the album directory is absent or holds no metadata.json that parses
\* to an object; this null is what scanMusicDirectory leaves out.
C3_NullWhenAbsentOrNoMetadata ==
    (result # Pending /\ result.op = "MetadataScanner.scanSpecificAlbum") =>
      (result.kind = "null" <=> ~HasParsableMetadata(CalledNode))

\* scanSpecificAlbum returned null for an existing album directory that
\* holds an audio file and a metadata.json that is not JSON.
C3_Witness ==
    /\ result # Pending
    /\ result.op = "MetadataScanner.scanSpecificAlbum"
    /\ result.kind = "null"
    /\ CalledNode.type = "dir"
    /\ \E i \in DOMAIN CalledNode.entries :
          CalledNode.entries[i] = BrokenMetadataFile
    /\ \E i \in DOMAIN CalledNode.entries :
          CalledNode.entries[i] = File(Wav1a)

\* The tracks of the last call, when it was a per-album audio scan.
ScannedTracks ==
    IF result # Pending /\ result.kind = "returned"
    THEN IF result.op = "FileScanner.scanSpecificAlbum"
         THEN result.value.tracks
         ELSE IF result.op = "MetadataScanner.scanAudioFiles"
         THEN result.value
         ELSE <<>>
    ELSE <<>>

\* The place of the entry called name in the listing of the scanned album.
ListingIndex(name) ==
    CHOOSE i \in DOMAIN CalledNode.entries : CalledNode.entries[i].name = name

\* C4: whatever the order of the directory listing, the tracks of
\* FileScanner.scanSpecificAlbum and of MetadataScanner.scanAudioFiles are
\* in non-decreasing trackNumber order, and tracks with the same
\* trackNumber keep the order the listing had them in.
C4_TracksSortedStably ==
    \A i, j \in DOMAIN ScannedTracks :
        i < j =>
          /\ ScannedTracks[i].trackNumber <= ScannedTracks[j].trackNumber
          /\ ScannedTracks[i].trackNumber = ScannedTracks[j].trackNumber
                => ListingIndex(ScannedTracks[i].filename)
                       < ListingIndex(ScannedTracks[j].filename)

\* The listing was "2-b.wav", "b.mp3", "1-a.wav": the scan returned the two
\* tracks numbered 1 in listing order, then track 2.
C4_Witness ==
    /\ result # Pending
    /\ result.op = "FileScanner.scanSpecificAlbum"
    /\ result.kind = "returned"
    /\ CalledNode.type = "dir"
    /\ CalledNode.entries = <<File(Wav2b), File(Mp3b), File(Wav1a)>>
    /\ Len(result.value.tracks) = 3
    /\ result.value.tracks[1].filename = Mp3b
    /\ result.value.tracks[2].filename = Wav1a
    /\ result.value.tracks[3].filename = Wav2b

-----------------------------------------------------------------------------
(* SpecValidate: validateAlbumData and validateAlbumStructure on records   *)
(* made by hand.  The metadata carries either a upc out of a family of     *)
(* strings around the twelve digits, or tracks whose isrc come out of a    *)
(* family around a well-formed code, or names that are empty or are not    *)
(* strings.                                                                *)

MaxUpcLen     == 13
MaxIsrcLen    == 13
MaxIsrcTracks == 2

\* s with the character at position i replaced by c.
ReplaceAt(s, i, c) == [q \in DOMAIN s |-> IF q = i THEN c ELSE s[q]]

\* "1234567890123..." cut to n characters.
DigitString(n) ==
    [q \in 1..n |-> <<"1", "2", "3", "4", "5", "6", "7", "8", "9", "0">>
                        [((q - 1) % 10) + 1]]

\* "USXXX2500001" cut, or continued with digits, to n characters.
IsrcOfLen(n) ==
    [q \in 1..n |-> IF q <= 12 THEN Isrc1[q] ELSE "0"]

\* The metadata of the record validateAlbumData is given.  The base is a
\* valid metadata; one pool varies its upc over digit strings of every
\* length, twelve characters of which one is not a digit, and null; one
\* varies the isrc of its only track over the code at every length and the
\* code with one character replaced; one gives it several tracks with a
\* well-formed, a malformed, an empty or no isrc, with or without title; one
\* varies the names over a name, nothing, white space, null and a number.
ValidateMetadataPool ==
    LET base == [artist |-> <<"A", "1">>, album |-> <<"B", "1">>,
                 tracks |-> <<[title |-> <<"a">>, isrc |-> Isrc1]>>]
        upcValues ==
            { DigitString(n) : n \in 0..MaxUpcLen }
            \cup { ReplaceAt(DigitString(12), i, c) :
                     i \in 1..12, c \in {"a", " ", "-", "\n"} }
            \cup { Null }
        isrcValues ==
            { IsrcOfLen(n) : n \in 0..MaxIsrcLen }
            \cup { ReplaceAt(Isrc1, i, c) :
                     i \in 1..12, c \in {"u", "Z", "7", "-"} }
            \cup { Null }
        listTracks ==
            { [title |-> <<"a">>, isrc |-> Isrc1],
              [title |-> <<"b">>, isrc |-> IsrcInvalid],
              [isrc |-> IsrcOfLen(11)],
              [title |-> <<"c">>, isrc |-> <<>>],
              [title |-> <<"d">>] }
        names == { <<"A", "1">>, <<>>, <<" ">>, Null, Number7 }
    IN  { Spread(base, [upc |-> v]) : v \in upcValues }
        \cup { Spread(base, [tracks |-> <<[title |-> <<"a">>, isrc |-> v]>>]) :
                 v \in isrcValues }
        \cup { Spread(base, [tracks |-> t]) :
                 t \in SeqsUpTo(listTracks, MaxIsrcTracks) }
        \cup { [artist |-> x, album |-> y, tracks |-> t, upc |-> u] :
                 x \in names, y \in names,
                 t \in {<<>>, <<[title |-> <<"a">>, isrc |-> IsrcInvalid]>>},
                 u \in {Upc1, UpcShort} }
        \cup { [album |-> <<"B", "1">>] }

\* The tracks validateAlbumStructure is given: complete, and with a
\* filename, a title or a format missing or a format in upper case.
StructureTracks ==
    LET name == <<"1", "-", "a", ".", "w", "a", "v">>
    IN  { [filename |-> name, title |-> <<"a">>, format |-> <<"w", "a", "v">>],
          [filename |-> <<>>, title |-> <<"a">>, format |-> <<"m", "p", "3">>],
          [filename |-> name, format |-> <<"W", "A", "V">>],
          [title |-> Null, filename |-> name] }

InitValidate ==
    /\ metadata \in ValidateMetadataPool
    /\ audioFiles \in SeqsUpTo(StructureTracks, 1)
    /\ matched = Pending
    /\ validation = Pending
    /\ ParseIdle
    /\ ScanIdle
    /\ run = Pending

\* validateAlbumData on the record of the metadata and the tracks.
ValidateData ==
    /\ validation = Pending
    /\ validation' = Spread(Validated([metadata |-> metadata,
                                       tracks |-> audioFiles]),
                            [op |-> "validateAlbumData"])
    /\ UNCHANGED <<audioFiles, metadata, matched, parseVars, scanVars, run>>

\* validateAlbumStructure on a record with the names of the metadata and
\* the tracks, or on null.
ValidateStructure ==
    /\ validation = Pending
    /\ "artist" \in DOMAIN metadata
    /\ \E album \in { [artist |-> metadata.artist, album |-> metadata.album,
                       tracks |-> audioFiles],
                      [artist |-> metadata.artist, album |-> metadata.album],
                      NullObject } :
          validation' = Spread(validateAlbumStructure(album),
                                  [of |-> album,
                                   op |-> "validateAlbumStructure"])
    /\ UNCHANGED <<audioFiles, metadata, matched, parseVars, scanVars, run>>

NextValidate == ValidateData \/ ValidateStructure

SpecValidate == InitValidate /\ [][NextValidate]_vars

-----------------------------------------------------------------------------
(* Claims about the validators, checked under SpecValidate.                *)

\* validateAlbumData has returned for a record with metadata.
DataValidated ==
    /\ validation # Pending
    /\ "op" \in DOMAIN validation
    /\ validation.op = "validateAlbumData"
    /\ validation.kind = "returned"

\* The positions of the errors with the given text.
ErrorsSaying(errors, text) ==
    { q \in DOMAIN errors : errors[q].error = text }

\* The value is there: not absent, not null, not empty.
Provided(obj, key) == key \in DOMAIN obj /\ obj[key] \notin {Null, <<>>}

\* C11: validateAlbumData reports 'UPC must be 12 digits', once and with
\* valid false, exactly when metadata.upc is provided (not absent, null or
\* empty) and is not a string of exactly twelve decimal digits.
C11_UpcError ==
    DataValidated =>
      LET md     == validation.of.metadata
          errors == validation.value.errors
          upc    == ErrorsSaying(errors, "UPC must be 12 digits")
      IN  IF Provided(md, "upc") /\ md.upc \notin [1..12 -> Digits]
          THEN Cardinality(upc) = 1 /\ validation.value.valid = FALSE
          ELSE upc = {}

\* The upc "12345" has been reported.
C11_Witness ==
    /\ DataValidated
    /\ "upc" \in DOMAIN validation.of.metadata
    /\ validation.of.metadata.upc = <<"1", "2", "3", "4", "5">>
    /\ validation.value.valid = FALSE
    /\ \E q \in DOMAIN validation.value.errors :
          validation.value.errors[q] = [error |-> "UPC must be 12 digits"]

\* Two upper-case letters, three upper-case letters or digits, seven digits.
WellFormedIsrc(isrc) ==
    /\ isrc \in [1..12 -> UpperLetters \cup Digits]
    /\ {isrc[1], isrc[2]} \subseteq UpperLetters
    /\ \A q \in 6..12 : isrc[q] \in Digits

\* C12: validateAlbumData reports exactly one ISRC error for each metadata
\* track whose isrc is provided and is not well formed, with the track's
\* index and title, and no ISRC error for any other track.
C12_IsrcErrors ==
    (DataValidated /\ "tracks" \in DOMAIN validation.of.metadata) =>
      LET tracks == validation.of.metadata.tracks
          errors == validation.value.errors
          isrc   == ErrorsSaying(errors, "Invalid ISRC format")
      IN  /\ \A i \in DOMAIN tracks :
                LET mine == { q \in isrc : errors[q].track = i }
                IN  IF Provided(tracks[i], "isrc")
                       /\ ~WellFormedIsrc(tracks[i].isrc)
                    THEN /\ Cardinality(mine) = 1
                         /\ \A q \in mine :
                               errors[q].title =
                                   (IF "title" \in DOMAIN tracks[i]
                                    THEN tracks[i].title ELSE Undefined)
                         /\ validation.value.valid = FALSE
                    ELSE mine = {}
          /\ \A q \in isrc : errors[q].track \in DOMAIN tracks

\* Both tracks have a malformed isrc, the second has no title: two errors,
\* for track 1 with its title and for track 2.
C12_Witness ==
    /\ DataValidated
    /\ "tracks" \in DOMAIN validation.of.metadata
    /\ validation.of.metadata.tracks =
           << [title |-> <<"b">>, isrc |-> IsrcInvalid],
              [isrc |-> IsrcOfLen(11)] >>
    /\ Cardinality(ErrorsSaying(validation.value.errors,
                                "Invalid ISRC format")) = 2
    /\ \E q \in DOMAIN validation.value.errors :
          validation.value.errors[q] =
              [error |-> "Invalid ISRC format", track |-> 1, title |-> <<"b">>]

\* C13: validateAlbumStructure and validateAlbumData never throw for any
\* album record: they return {valid, errors}, errors holds an entry for
\* every violated rule (an empty artist and an empty track list are both
\* reported), and valid is true exactly when errors is empty.
C13_ValidatorsNeverThrow ==
    (validation # Pending /\ "op" \in DOMAIN validation) =>
      /\ validation.kind = "returned"
      /\ validation.value.valid = (validation.value.errors = <<>>)
      /\ (/\ validation.op = "validateAlbumStructure"
          /\ validation.of # NullObject
          /\ validation.of.artist = <<>>
          /\ "tracks" \in DOMAIN validation.of
          /\ validation.of.tracks = <<>>)
            => /\ ErrorsSaying(validation.value.errors,
                               "Artist name is required") # {}
               /\ ErrorsSaying(validation.value.errors,
                               "Album must contain at least one track") # {}

-----------------------------------------------------------------------------
(* Claims about the scanners' errors, checked under Spec.                  *)

\* C15: scanSpecificAlbum of both scanners returns null exactly when the
\* album directory does not exist; when the stat of the album directory
\* fails for another reason (permission denied) the call throws.
C15_NullExactlyWhenMissing ==
    (/\ result # Pending
     /\ result.op \in {"FileScanner.scanSpecificAlbum",
                       "MetadataScanner.scanSpecificAlbum"}) =>
      /\ result.kind = "null" <=> CalledNode.type \in {"absent", "notdir"}
      /\ CalledNode.type = "denied" => result.kind = "threw"

\* The metadata.json entry of the directory, when it has one.
MetadataEntries(node) ==
    IF node.type = "dir"
    THEN { e \in Range(node.entries) : e.name = MetadataJson /\ e.type = "file" }
    ELSE {}

\* C16: MetadataScanner.loadMetadata never throws: it returns what
\* JSON.parse made of metadata.json when the file exists and is valid JSON,
\* and null when the file does not exist and when its content fails to
\* parse.
C16_LoadMetadataNeverThrows ==
    (result # Pending /\ result.op = "MetadataScanner.loadMetadata") =>
      /\ result.kind # "threw"
      /\ \A e \in MetadataEntries(CalledNode) :
            IF e.json.valid /\ e.json.value # NullObject
            THEN result.kind = "returned" /\ result.value = e.json.value
            ELSE result.kind = "null"
      /\ MetadataEntries(CalledNode) = {} => result.kind = "null"

\* loadMetadata returned null for a directory whose metadata.json is not
\* JSON.
C16_Witness ==
    /\ result # Pending
    /\ result.op = "MetadataScanner.loadMetadata"
    /\ result.kind = "null"
    /\ BrokenMetadataFile \in MetadataEntries(CalledNode)

-----------------------------------------------------------------------------
(* SpecRace: FileScanner.scanMusicDirectory await by await, while another  *)
(* process removes entries of the tree.  scan holds the locals of the      *)
(* running call: the artists and albumDirs lists with their loop indices   *)
(* ai and bi, and, for the readdir loop under way (in getDirectories on    *)
(* the root or on an artist, or in scanSpecificAlbum), its items, index i  *)
(* and the directories or tracks pushed so far in acc.                     *)

MaxRemovals == 1

\* The tree without the entry at the path.
RECURSIVE RemoveAt(_, _)
RemoveAt(tree, path) ==
    [tree EXCEPT !.entries =
        IF Len(path) = 1
        THEN SelectSeq(tree.entries, LAMBDA e : e.name # path[1])
        ELSE [q \in DOMAIN tree.entries |->
                 IF tree.entries[q].name = path[1]
                 THEN RemoveAt(tree.entries[q], Tail(path))
                 ELSE tree.entries[q]]]

\* The paths of the entries of the tree, down to the files of the albums.
RECURSIVE PathsOf(_)
PathsOf(tree) ==
    IF tree.type # "dir" THEN {}
    ELSE UNION { {<<e.name>>} \cup { <<e.name>> \o q : q \in PathsOf(e) } :
                   e \in Range(tree.entries) }

\* scanMusicDirectory settles: it returns albums, or throws.
Settle(s, outcome) == [s EXCEPT !.pc = "done", !.outcome = outcome]

\* The head of 'for (const artist of artists)': getDirectories(artistPath)
\* awaits readdir, or the loop is over and albums is returned.
NextArtist(s) ==
    IF s.ai > Len(s.artists) THEN Settle(s, Returned(s.albums))
    ELSE [s EXCEPT !.pc = "readdir", !.level = "artist"]

\* The head of 'for (const album of albumDirs)': scanSpecificAlbum awaits
\* stat(albumPath), or the loop is over and the next artist follows.
NextAlbum(s) ==
    IF s.bi > Len(s.albumDirs) THEN NextArtist([s EXCEPT !.ai = @ + 1])
    ELSE [s EXCEPT !.pc = "albumStat"]

\* getDirectories returns dirs, to 'artists' or to 'albumDirs'.
GetDirectoriesReturns(s, dirs) ==
    IF s.level = "root"
    THEN NextArtist([s EXCEPT !.artists = dirs, !.ai = 1])
    ELSE NextAlbum([s EXCEPT !.albumDirs = dirs, !.bi = 1])

\* The head of 'for (const item of items)' in getDirectories.
NextItem(s) ==
    IF s.i > Len(s.items) THEN GetDirectoriesReturns(s, s.acc)
    ELSE [s EXCEPT !.pc = "stat"]

\* The head of 'for (const file of files)' in scanSpecificAlbum: after the
\* last file the tracks are sorted and the album is pushed.
NextFile(s) ==
    IF s.i > Len(s.items)
    THEN LET artist == s.artists[s.ai]
             album  == s.albumDirs[s.bi]
             tracks == SortByTrackNumber(s.acc)
         IN  NextAlbum([s EXCEPT
                 !.albums = Append(@, [ artist      |-> artist,
                                        album       |-> album,
                                        path        |-> albumPathOf(artist, album),
                                        tracks      |-> tracks,
                                        totalTracks |-> Len(tracks) ]),
                 !.bi = @ + 1])
    ELSE [s EXCEPT !.pc = "fileStat"]

\* The trees are made of existing directories and files: up to two
\* artists, each a file or a directory of up to two albums, each empty or
\* with two audio files and a picture.
InitRace ==
    /\ LET albumSlots ==
               { Absent,
                 [type |-> "dir", entries |-> <<>>],
                 [type |-> "dir", entries |->
                     <<File(Wav2b), File(CoverJpg), File(Wav1a)>>] }
           artistSlots ==
               { Absent, [type |-> "file"] }
               \cup { DirOf(Album1, b1, Album2, b2) :
                        b1 \in albumSlots, b2 \in albumSlots }
       IN  fs \in { DirOf(Artist1, a1, Artist2, a2) :
                      a1 \in artistSlots, a2 \in artistSlots }
    /\ scan = Pending
    /\ result = Pending
    /\ history = <<>>
    /\ ParseIdle
    /\ MatchIdle
    /\ run = Pending

\* scanMusicDirectory() is called: getDirectories(this.rootDir) awaits
\* readdir.
StartScan ==
    /\ scan = Pending
    /\ scan' = [ pc |-> "readdir", level |-> "root", outcome |-> Pending,
                 artists |-> <<>>, ai |-> 1, albumDirs |-> <<>>, bi |-> 1,
                 items |-> <<>>, i |-> 1, acc |-> <<>>, albums |-> <<>>,
                 removals |-> 0 ]
    /\ UNCHANGED <<fs, result, history, parseVars, matchVars, run>>

\* An await of getDirectories resumes: readdir(dirPath), or stat(itemPath)
\* of the item the loop is at.  ENOENT of either is caught and makes the
\* whole result []; every other error is thrown on and scanMusicDirectory
\* throws.
GetDirectoriesStep ==
    /\ scan # Pending
    /\ scan.pc \in {"readdir", "stat"}
    /\ LET dir == NodeAt(fs, IF scan.level = "root" THEN <<>>
                             ELSE <<scan.artists[scan.ai]>>)
       IN  scan' =
             IF scan.pc = "readdir"
             THEN IF dir.type = "dir"
                  THEN NextItem([scan EXCEPT
                           !.items = [q \in DOMAIN dir.entries |->
                                         dir.entries[q].name],
                           !.i = 1, !.acc = <<>>])
                  ELSE IF dir.type = "absent"
                  THEN GetDirectoriesReturns(scan, <<>>)
                  ELSE Settle(scan, Threw("Failed to scan music directory"))
             ELSE LET item == Child(dir, scan.items[scan.i])
                  IN  IF item.type = "absent"
                      THEN GetDirectoriesReturns(scan, <<>>)
                      ELSE IF item.type \in {"notdir", "denied"}
                      THEN Settle(scan, Threw("Failed to scan music directory"))
                      ELSE NextItem([scan EXCEPT
                               !.acc = IF item.type \in DirectoryTypes
                                       THEN Append(@, scan.items[scan.i])
                                       ELSE @,
                               !.i = @ + 1])
    /\ UNCHANGED <<fs, result, history, parseVars, matchVars, run>>

\* An await of scanSpecificAlbum resumes: stat(albumPath), whose failure
\* returns null; readdir(albumPath) or stat(filePath), whose failure is
\* thrown as 'Failed to scan album' and makes scanMusicDirectory throw.
ScanAlbumStep ==
    /\ scan # Pending
    /\ scan.pc \in {"albumStat", "albumReaddir", "fileStat"}
    /\ LET album == NodeAt(fs, <<scan.artists[scan.ai],
                                 scan.albumDirs[scan.bi]>>)
       IN  scan' =
             IF scan.pc = "albumStat"
             THEN IF album.type \in StatFails
                  THEN NextAlbum([scan EXCEPT !.bi = @ + 1])
                  ELSE [scan EXCEPT !.pc = "albumReaddir"]
             ELSE IF scan.pc = "albumReaddir"
             THEN IF album.type = "dir"
                  THEN NextFile([scan EXCEPT
                           !.items = [q \in DOMAIN album.entries |->
                                         album.entries[q].name],
                           !.i = 1, !.acc = <<>>])
                  ELSE Settle(scan, Threw("Failed to scan music directory"))
             ELSE LET name == scan.items[scan.i]
                      file == Child(album, name)
                      path == albumPathOf(scan.artists[scan.ai],
                                          scan.albumDirs[scan.bi])
                  IN  IF file.type \in StatFails
                      THEN Settle(scan, Threw("Failed to scan music directory"))
                      ELSE NextFile([scan EXCEPT
                               !.acc = IF file.type = "file" /\ isAudioFile(name)
                                       THEN Append(@, FileExtractTrackInfo(
                                                          name, join(path, name)))
                                       ELSE @,
                               !.i = @ + 1])
    /\ UNCHANGED <<fs, result, history, parseVars, matchVars, run>>

\* Another process removes a directory or a file while the scan runs.
Remove ==
    /\ scan # Pending
    /\ scan.pc # "done"
    /\ scan.removals < MaxRemovals
    /\ \E path \in PathsOf(fs) : fs' = RemoveAt(fs, path)
    /\ scan' = [scan EXCEPT !.removals = @ + 1]
    /\ UNCHANGED <<result, history, parseVars, matchVars, run>>

NextRace == StartScan \/ GetDirectoriesStep \/ ScanAlbumStep \/ Remove

SpecRace == InitRace /\ [][NextRace]_vars

\* C14: if a directory or file under the root is removed while
\* scanMusicDirectory is running, the scan does not throw: it runs to
\* completion and returns the records of every album that was not removed.
C14_ScanSurvivesRemoval ==
    (scan # Pending /\ scan.pc = "done") =>
      /\ scan.outcome.kind = "returned"
      /\ \A p \in AlbumDirectories :
            \E q \in DOMAIN scan.outcome.value :
                /\ scan.outcome.value[q].artist = p[1]
                /\ scan.outcome.value[q].album = p[2]

-----------------------------------------------------------------------------
(* Claims about the albums and tracks of the file scan, checked under Spec *)
(* and SpecAlbum.                                                          *)

\* Every directory the scan has to read can be read: the root is a
\* directory or missing, and no artist or album directory is locked.
TreeReadable ==
    /\ fs.type \in {"dir", "absent"}
    /\ \A a \in ArtistNames :
          /\ Child(fs, a).type # "locked"
          /\ \A b \in AlbumNames : AlbumNode(fs, a, b).type # "locked"

\* C18: FileScanner.scanMusicDirectory returns exactly one album record for
\* every Artist/Album pair in which both are directories, albums without
\* audio files included, with artist and album set to the directory names,
\* and no record for a plain file at either level; it returns whenever
\* every directory can be read.
C18_OneRecordPerAlbumDirectory ==
    (result # Pending /\ result.op = "FileScanner.scanMusicDirectory") =>
      /\ TreeReadable => result.kind = "returned"
      /\ result.kind = "returned" =>
            /\ ReturnedAlbums = AlbumDirectories
            /\ Len(result.value) = Cardinality(AlbumDirectories)
            /\ \A i \in DOMAIN result.value :
                  /\ result.value[i].path
                         = albumPathOf(result.value[i].artist,
                                       result.value[i].album)
                  /\ result.value[i].totalTracks
                         = Len(result.value[i].tracks)

\* The first artist holds an empty album directory and a plain file, the
\* second artist is a plain file: the scan returned the empty album alone.
C18_Witness ==
    /\ fs = DirOf(Artist1, DirOf(Album1, [type |-> "dir", entries |-> <<>>],
                                 Album2, [type |-> "file"]),
                  Artist2, [type |-> "file"])
    /\ result # Pending
    /\ result.op = "FileScanner.scanMusicDirectory"
    /\ result.kind = "returned"
    /\ Len(result.value) = 1
    /\ result.value[1].artist = Artist1
    /\ result.value[1].album = Album1
    /\ result.value[1].tracks = <<>>

\* The tracks of the album the last call scanned.
AlbumTracks ==
    IF result # Pending /\ result.kind = "returned"
    THEN IF result.op \in { "FileScanner.scanSpecificAlbum",
                            "MetadataScanner.scanSpecificAlbum" }
         THEN result.value.tracks
         ELSE IF result.op = "MetadataScanner.scanAudioFiles"
         THEN result.value
         ELSE <<>>
    ELSE <<>>

\* What follows the last "." of a name that has one after its first
\* character; empty for every other name.
Extension(name) ==
    IF \E k \in 2..Len(name) : name[k] = "."
    THEN LET k == CHOOSE k \in 2..Len(name) :
                      /\ name[k] = "."
                      /\ \A j \in (k + 1)..Len(name) : name[j] # "."
         IN  SubSeq(name, k + 1, Len(name))
    ELSE <<>>

\* The names of the regular files of the scanned album whose extension is
\* wav, flac or mp3 in any case.
ExpectedTrackNames ==
    { CalledNode.entries[i].name : i \in
        { i \in DOMAIN CalledNode.entries :
            /\ CalledNode.entries[i].type = "file"
            /\ toLowerCase(Extension(CalledNode.entries[i].name))
                   \in { <<"w", "a", "v">>, <<"f", "l", "a", "c">>,
                         <<"m", "p", "3">> } } }

\* C19: the tracks of a scanned album are exactly the regular files of the
\* album directory whose extension, compared case-insensitively, is wav,
\* flac or mp3, one track per file; every track's format is the lowercased
\* extension; cover.jpg and metadata.json are never tracks.
C19_TracksAreAudioFiles ==
    (/\ result # Pending
     /\ result.kind = "returned"
     /\ result.op \in { "FileScanner.scanSpecificAlbum",
                        "MetadataScanner.scanSpecificAlbum",
                        "MetadataScanner.scanAudioFiles" }) =>
      /\ { AlbumTracks[i].filename : i \in DOMAIN AlbumTracks } = ExpectedTrackNames
      /\ Len(AlbumTracks) = Cardinality(ExpectedTrackNames)
      /\ \A i \in DOMAIN AlbumTracks :
            /\ AlbumTracks[i].format
                   = toLowerCase(Extension(AlbumTracks[i].filename))
            /\ AlbumTracks[i].format
                   \in { <<"w", "a", "v">>, <<"f", "l", "a", "c">>,
                         <<"m", "p", "3">> }
            /\ AlbumTracks[i].filename \notin {CoverJpg, MetadataJson}

\* The album lists cover.jpg, "10-c.WAV" and metadata.json: the scan
\* returned the one track, with format "wav".
C19_Witness ==
    /\ result # Pending
    /\ result.op = "MetadataScanner.scanSpecificAlbum"
    /\ result.kind = "returned"
    /\ CalledNode.type = "dir"
    /\ CalledNode.entries
           = <<File(CoverJpg), File(Wav10c), MetadataFile(MetadataAB)>>
    /\ Len(result.value.tracks) = 1
    /\ result.value.tracks[1].filename = Wav10c
    /\ result.value.tracks[1].format = <<"w", "a", "v">>

\* The scanned album getPublishOptions was called with.
PublishedAlbum ==
    IF result.args[3] = "tunecore"
    THEN MetaScanSpecificAlbum(fs, result.args[1], result.args[2]).value
    ELSE FileScanSpecificAlbum(fs, result.args[1], result.args[2]).value

\* C20: for every scanned album getPublishOptions returns an object whose
\* tracks list has one entry per scanned track, in order, each with file
\* equal to the track's path and carrying the track's other fields; for
\* 'tunecore' the album metadata fields are spread at the top level, for
\* 'fuga' the object has only the tracks list.
C20_PublishOptions ==
    (/\ result # Pending
     /\ result.op = "Publisher.getPublishOptions"
     /\ result.args[3] \in {"tunecore", "fuga"}) =>
      /\ result.kind = "returned"
      /\ Len(result.value.tracks) = Len(PublishedAlbum.tracks)
      /\ \A i \in DOMAIN PublishedAlbum.tracks :
            /\ result.value.tracks[i].file = PublishedAlbum.tracks[i].path
            /\ \A k \in DOMAIN PublishedAlbum.tracks[i]
                           \ {"filename", "path"} :
                  /\ k \in DOMAIN result.value.tracks[i]
                  /\ result.value.tracks[i][k] = PublishedAlbum.tracks[i][k]
      /\ result.args[3] = "tunecore" =>
            \A k \in DOMAIN PublishedAlbum.metadata \ {"tracks"} :
                /\ k \in DOMAIN result.value
                /\ result.value[k] = PublishedAlbum.metadata[k]
      /\ result.args[3] = "fuga" => DOMAIN result.value = {"tracks"}

\* C22: every album FileScanner.scanSpecificAlbum returns with at least
\* one audio file passes validateAlbumStructure: valid is true and errors
\* is empty.
C22_ScannedAlbumIsValid ==
    (/\ result # Pending
     /\ result.op = "FileScanner.validateAlbumStructure"
     /\ FileScanSpecificAlbum(fs, result.args[1], result.args[2])
            .value.tracks # <<>>) =>
      /\ result.kind = "returned"
      /\ result.value.valid
      /\ result.value.errors = <<>>

\* C27: for every directory content MetadataScanner.scanAudioFiles returns
\* the track list FileScanner.scanSpecificAlbum returns as tracks for the
\* same directory: the same files in the same order, with the same
\* trackNumber, title and format.
C27_SameTracksAsFileScanner ==
    (/\ result # Pending
     /\ result.op = "MetadataScanner.scanAudioFiles"
     /\ CalledNode.type = "dir") =>
      /\ result.kind = "returned"
      /\ result.value
             = FileScanSpecificAlbum(fs, result.args[1], result.args[2])
                   .value.tracks

\* The names of the entries of the node that are directories.
DirectoryNames(node) ==
    { node.entries[i].name : i \in
        { i \in DOMAIN node.entries :
            node.entries[i].type \in {"dir", "locked"} } }

AudioFilesOfRecord(record) ==
    LET node == AlbumNode(fs, record.artist, record.album)
    IN  Cardinality({ i \in DOMAIN node.entries :
            /\ node.entries[i].type = "file"
            /\ toLowerCase(Extension(node.entries[i].name))
                   \in { <<"w", "a", "v">>, <<"f", "l", "a", "c">>,
                         <<"m", "p", "3">> } })

\* The album records the last call returned.
ReturnedRecords ==
    IF result # Pending /\ result.kind = "returned"
    THEN IF result.op \in { "FileScanner.scanSpecificAlbum",
                            "MetadataScanner.scanSpecificAlbum" }
         THEN {result.value}
         ELSE IF result.op \in { "FileScanner.scanMusicDirectory",
                                 "MetadataScanner.scanMusicDirectory" }
         THEN Range(result.value)
         ELSE {}
    ELSE {}

\* C30: every album record FileScanner or MetadataScanner returns has
\* totalTracks = tracks.length = the number of audio files in the album
\* directory, whatever metadata.json holds.
C30_TotalTracks ==
    \A record \in ReturnedRecords :
        /\ record.totalTracks = Len(record.tracks)
        /\ Len(record.tracks) = AudioFilesOfRecord(record)

\* MetadataScanner.scanSpecificAlbum on an album with one audio file and a
\* metadata.json that lists two tracks: totalTracks is 1.
C30_Witness ==
    /\ result # Pending
    /\ result.op = "MetadataScanner.scanSpecificAlbum"
    /\ result.kind = "returned"
    /\ CalledNode.entries = <<File(Wav2b), MetadataFile(MetadataAB)>>
    /\ Len(result.value.metadata.tracks) = 2
    /\ result.value.totalTracks = 1
    /\ Len(result.value.tracks) = 1

-----------------------------------------------------------------------------
(* SpecTwice: up to MaxCalls calls, one after the other, on the same       *)
(* scanners over an unchanged tree.  history keeps the earlier calls with  *)
(* their outcomes.                                                         *)

MaxCalls == 2

\* One artist with up to two albums: absent, empty, with audio files, or
\* with audio files and a metadata.json.
InitTwice ==
    /\ LET albumSlots ==
               { Absent,
                 [type |-> "dir", entries |-> <<>>],
                 [type |-> "dir", entries |-> <<File(Wav2b), File(Wav1a)>>],
                 [type |-> "dir", entries |->
                     <<MetadataFile(MetadataAB), File(Mp3b), File(Wav1a)>>] }
       IN  fs \in { DirOf(Artist1, DirOf(Album1, b1, Album2, b2),
                          Artist2, Absent) :
                      b1 \in albumSlots, b2 \in albumSlots }
    /\ result = Pending
    /\ history = <<>>
    /\ scan = Pending
    /\ ParseIdle
    /\ MatchIdle
    /\ run = Pending

\* The call has settled and the caller goes on to the next one.
Again ==
    /\ result # Pending
    /\ Len(history) + 1 < MaxCalls
    /\ history' = Append(history, result)
    /\ result' = Pending
    /\ UNCHANGED <<fs, scan, parseVars, matchVars, run>>

NextTwice == Next \/ Again

SpecTwice == InitTwice /\ [][NextTwice]_vars

\* The scans among the methods called.
ScanMethods ==
    { "FileScanner.scanMusicDirectory", "MetadataScanner.scanMusicDirectory",
      "FileScanner.scanSpecificAlbum", "MetadataScanner.scanSpecificAlbum" }

-----------------------------------------------------------------------------
(* SpecRetry: one makeApiRequest of FugaClient or TuneCoreClient (the same *)
(* code) or one makeRequest of SunoClient, fetch by fetch.  A message is   *)
(* the sequence of its words; run.tried keeps what each fetch gave and     *)
(* run.delays the delays waited between the fetches.                       *)

MaxAttempts == 4    \* the largest retryConfig.maxAttempts and maxRetries

delayMs == 5000

\* formatApiError({status, statusText, data}): the message ends with
\* data.message, and the status is kept on the error.
formatApiError(client, response) ==
    [ name    |-> "Error",
      message |-> <<client, "API", "Error">> \o response.statusText
                      \o <<"-">> \o response.details,
      status  |-> response.status ]

\* isRetryableError of FugaClient and TuneCoreClient; an error without a
\* status has status 0 here, for which both comparisons are false as they
\* are for undefined.
isRetryableError(error) ==
    \/ error.name = "AbortError"
    \/ "Network" \in Range(error.message)
    \/ "timeout" \in Range(error.message)
    \/ (error.status >= 500 /\ error.status < 600)

\* SunoClient.isRetryableError: by the status in 'HTTP <status>:' when the
\* message has one, else by error.code.
SunoIsRetryableError(error) ==
    IF error.status # 0
    THEN error.status \in {408, 429, 500, 502, 503, 504}
    ELSE error.code \in {"ECONNRESET", "ENOTFOUND", "ECONNREFUSED"}

\* The settled call that threw the error.
ThrewError(error) == [kind |-> "threw", error |-> error]

\* What one fetch can give: a response that is ok, a response with an HTTP
\* error status, whose body may hold any message, or a rejection (the
\* request timed out, was aborted, or the connection failed).
FetchOutcomes ==
    { [kind |-> "ok"] }
    \cup { [kind |-> "http", status |-> st[1], statusText |-> st[2],
            details |-> d] :
             st \in { <<400, <<"Bad", "Request">>>>,
                      <<503, <<"Service", "Unavailable">>>> },
             d \in { <<"Unknown", "error">>,
                     <<"Invalid", "timeout", "value">> } }
    \cup { [kind |-> "rejected", error |-> e] :
             e \in { [name |-> "TimeoutError", status |-> 0, code |-> "none",
                      message |-> <<"The", "operation", "was", "aborted",
                                    "due", "to", "timeout">>],
                     [name |-> "AbortError", status |-> 0, code |-> "none",
                      message |-> <<"This", "operation", "was", "aborted">>],
                     [name |-> "TypeError", status |-> 0, code |-> "none",
                      message |-> <<"fetch", "failed">>],
                     [name |-> "Error", status |-> 0, code |-> "ECONNRESET",
                      message |-> <<"socket", "hang", "up">>] } }

\* The call has been made: attempt is the loop variable before the first
\* fetch (1 in makeApiRequest, 0 in makeRequest).
InitRetry ==
    /\ run \in
         { [ client |-> c, maxAttempts |-> n, attempt |-> 1, tried |-> <<>>,
             delays |-> <<>>, outcome |-> Pending ] :
               c \in {"FUGA", "TuneCore"}, n \in 0..MaxAttempts }
         \cup
         { [ client |-> "Suno", maxAttempts |-> n, attempt |-> 0,
             tried |-> <<>>, delays |-> <<>>, outcome |-> Pending ] :
               n \in 1..MaxAttempts }
    /\ ParseIdle
    /\ MatchIdle
    /\ ScanIdle

\* One turn of the loop of makeApiRequest: the fetch, and what follows it up
\* to the next fetch or to the end of the call.
ApiFetch ==
    /\ run.client \in {"FUGA", "TuneCore"}
    /\ run.outcome = Pending
    /\ run.attempt <= run.maxAttempts
    /\ \E r \in FetchOutcomes :
          LET error == IF r.kind = "http"
                       THEN Spread(formatApiError(run.client, r),
                                   [code |-> "none"])
                       ELSE r.error
              tried == Append(run.tried, r)
          IN  IF r.kind = "ok"
              THEN run' = [run EXCEPT !.tried = tried,
                                      !.outcome = Returned("responseData")]
              ELSE IF run.attempt < run.maxAttempts /\ isRetryableError(error)
              THEN run' = [run EXCEPT
                             !.tried = tried,
                             !.delays = Append(@, delayMs * run.attempt),
                             !.attempt = @ + 1]
              ELSE run' = [run EXCEPT !.tried = tried,
                                      !.outcome = ThrewError(error)]
    /\ UNCHANGED <<parseVars, matchVars, scanVars>>

\* The loop of makeApiRequest has ended without a return or a throw, which
\* it does when maxAttempts is 0: throw lastError, still undefined.
ApiLoopEnds ==
    /\ run.client \in {"FUGA", "TuneCore"}
    /\ run.outcome = Pending
    /\ run.attempt > run.maxAttempts
    /\ run' = [run EXCEPT !.outcome = ThrewError(Undefined)]
    /\ UNCHANGED <<parseVars, matchVars, scanVars>>

\* One turn of the loop of SunoClient.makeRequest.
SunoFetch ==
    /\ run.client = "Suno"
    /\ run.outcome = Pending
    /\ run.attempt <= run.maxAttempts
    /\ \E r \in FetchOutcomes :
          LET error == IF r.kind = "http"
                       THEN [ name |-> "Error", status |-> r.status,
                              code |-> "none",
                              message |-> <<"HTTP">> \o r.statusText ]
                       ELSE r.error
              tried == Append(run.tried, r)
          IN  IF r.kind = "ok"
              THEN run' = [run EXCEPT !.tried = tried,
                                      !.outcome = Returned("response")]
              ELSE IF run.attempt < run.maxAttempts
                      /\ SunoIsRetryableError(error)
              THEN run' = [run EXCEPT
                             !.tried = tried,
                             !.delays = Append(@, 1000 * 2 ^ run.attempt),
                             !.attempt = @ + 1]
              ELSE run' = [run EXCEPT !.tried = tried,
                                      !.outcome = ThrewError(error)]
    /\ UNCHANGED <<parseVars, matchVars, scanVars>>

NextRetry == ApiFetch \/ ApiLoopEnds \/ SunoFetch

SpecRetry == InitRetry /\ [][NextRetry]_vars

-----------------------------------------------------------------------------
(* Claims about the retries, checked under SpecRetry.                      *)

\* C23: in makeApiRequest of FugaClient and TuneCoreClient and in
\* makeRequest of SunoClient the delay before each further retry is double
\* the delay before the previous one.
C23_ExponentialBackoff ==
    \A i \in DOMAIN run.delays :
        i > 1 => run.delays[i] = 2 * run.delays[i - 1]

\* The error a caller sees for what a fetch gave: retryable, as the claim
\* has it, when the request was aborted, timed out or failed on the
\* network, or when the response had a 5xx status.
RetryableFetch(r) ==
    \/ r.kind = "rejected"
    \/ r.kind = "http" /\ r.status >= 500 /\ r.status < 600

\* C29: makeApiRequest ends after at most maxAttempts fetches; a successful
\* response is returned at once; a further fetch is made only after a
\* retryable error (abort, timeout, network error or HTTP 5xx); any other
\* error, such as an HTTP 4xx, is thrown after that one fetch; and when all
\* fetches fail the error of the last one is thrown.
C29_BoundedRetry ==
    run.client \in {"FUGA", "TuneCore"} =>
      /\ Len(run.tried) <= run.maxAttempts
      /\ \A i \in DOMAIN run.tried :
            i < Len(run.tried) => RetryableFetch(run.tried[i])
      /\ (run.tried # <<>> /\ run.tried[Len(run.tried)].kind = "ok") =>
            run.outcome.kind = "returned"
      /\ (run.tried # <<>> /\ ~RetryableFetch(run.tried[Len(run.tried)])
          /\ run.tried[Len(run.tried)].kind # "ok") =>
            run.outcome.kind = "threw"
      /\ (run.outcome.kind = "threw" /\ run.tried # <<>>) =>
            LET last == run.tried[Len(run.tried)]
            IN  /\ last.kind # "ok"
                /\ last.kind = "http" =>
                      run.outcome.error.status = last.status
                /\ last.kind = "rejected" =>
                      run.outcome.error.name = last.error.name

-----------------------------------------------------------------------------
(* SpecPoll: one SunoClient.pollUntilComplete, status request by status    *)
(* request.  run.polled keeps what each getGenerationStatus gave; the      *)
(* sleep between two requests changes nothing.                             *)

MaxPolls == 3       \* the largest options.maxAttempts

\* The loop body that goes on polling after a 'failed' status.
AfterStatusIgnoresFailed(r, status) ==
    IF status.kind = "threw"
    THEN [r EXCEPT !.outcome = Threw("Failed to get generation status")]
    ELSE IF status.value.status = "completed"
    THEN [r EXCEPT !.outcome = Returned(status.value)]
    ELSE [r EXCEPT !.attempts = @ + 1]

\* The body of the while loop of pollUntilComplete after
\* getGenerationStatus has settled with status.
AfterStatus(r, status) ==
    IF status.kind = "threw"
    THEN [r EXCEPT !.outcome = Threw("Failed to get generation status")]
    ELSE IF status.value.status = "completed"
    THEN [r EXCEPT !.outcome = Returned(status.value)]
    ELSE IF status.value.status = "failed"
    THEN [r EXCEPT !.outcome = Threw("Generation failed")]
    ELSE [r EXCEPT !.attempts = @ + 1]

InitPoll ==
    /\ run \in { [ maxAttempts |-> n, attempts |-> 0, polled |-> <<>>,
                   outcome |-> Pending ] : n \in 0..MaxPolls }
    /\ ParseIdle
    /\ MatchIdle
    /\ ScanIdle

\* while (attempts < maxAttempts): one status request and the loop body.
Poll ==
    /\ run.outcome = Pending
    /\ run.attempts < run.maxAttempts
    /\ \E status \in
            { Returned([status |-> st]) :
                st \in {"completed", "failed", "processing", "queued"} }
            \cup { Returned([status |-> "failed", error |-> "quota"]),
                   Returned([progress |-> 50, status |-> "unknown"]),
                   Threw("Failed to get generation status") } :
          run' = AfterStatus([run EXCEPT !.polled = Append(@, status)], status)
    /\ UNCHANGED <<parseVars, matchVars, scanVars>>

\* The loop has ended: throw 'Generation timed out after N attempts'.
PollTimedOut ==
    /\ run.outcome = Pending
    /\ run.attempts >= run.maxAttempts
    /\ run' = [run EXCEPT !.outcome = Threw("Generation timed out")]
    /\ UNCHANGED <<parseVars, matchVars, scanVars>>

NextPoll == Poll \/ PollTimedOut

\* The call is not suspended for ever: a settled request or sleep resumes it.
SpecPoll == InitPoll /\ [][NextPoll]_vars /\ WF_vars(NextPoll)

\* The response is neither 'completed' nor 'failed'.
StillRunning(status) ==
    status.kind = "returned" /\ status.value.status \notin {"completed", "failed"}

\* What the call has to end with after the responses so far; Pending while
\* it may go on.
PollShouldEndWith ==
    LET n    == Len(run.polled)
        last == run.polled[n]
    IN  IF n > 0 /\ last.kind = "returned" /\ last.value.status = "completed"
        THEN Returned(last.value)
        ELSE IF n > 0 /\ last.kind = "returned" /\ last.value.status = "failed"
        THEN Threw("Generation failed")
        ELSE IF n > 0 /\ last.kind = "threw"
        THEN Threw("Failed to get generation status")
        ELSE IF n >= run.maxAttempts THEN Threw("Generation timed out")
        ELSE Pending

\* C24: pollUntilComplete always terminates, after at most maxAttempts
\* status requests: it returns the status object at the first 'completed'
\* response, throws 'Generation failed' at the first 'failed' response,
\* throws 'Generation timed out' when maxAttempts responses in a row are
\* neither, and makes no status request after a terminal response.
C24_PollTerminates ==
    /\ [](/\ Len(run.polled) <= run.maxAttempts
          /\ \A i \in DOMAIN run.polled :
                i < Len(run.polled) => StillRunning(run.polled[i])
          /\ run.outcome # Pending => run.outcome = PollShouldEndWith
          /\ PollShouldEndWith = Pending => run.outcome = Pending)
    /\ <>(run.outcome # Pending)

\* The call threw 'Generation failed' at a 'failed' response that came
\* second, with a third request still allowed.
C24_Witness ==
    /\ "polled" \in DOMAIN run
    /\ run.maxAttempts = 3
    /\ Len(run.polled) = 2
    /\ run.polled[1] = Returned([status |-> "processing"])
    /\ run.polled[2] = Returned([status |-> "failed"])
    /\ run.outcome = Threw("Generation failed")

-----------------------------------------------------------------------------
(* SpecSongs: one AlbumGenerator.generateMultipleSongs, song by song.      *)
(* run.calls keeps the generateOptions handed to Generator.generate and    *)
(* run.reports the progress reported.  Generator.generate is as its tests  *)
(* have it: it resolves with {success: true, filePath, songId}, the file   *)
(* being named after the title, or rejects with an Error.  run.callback is *)
(* the progressCallback argument: none, a function that returns, or a      *)
(* function that throws.                                                   *)

MaxCount == 4       \* the largest valid options.count tried

MaxSongs == 20

\* const songTitle = count > 1 ? `${title} ${i + 1}` : title
SongTitle(title, count, i) == IF count > 1 THEN <<title, i + 1>> ELSE <<title>>

\* reportProgress: the callback is called only if it is a function.
reportProgress(r, step, currentTrack) ==
    IF r.callback = "none" THEN r
    ELSE [r EXCEPT !.reports = Append(@, [step |-> step,
                                          currentTrack |-> currentTrack])]

\* The loop turn that lets the error of Generator.generate end the call.
AfterGenerateRethrows(r, generated) ==
    IF generated.kind = "returned"
    THEN [r EXCEPT !.results = Append(@, generated.value), !.i = @ + 1]
    ELSE [r EXCEPT !.outcome = generated]

\* The rest of a turn of the for loop once Generator.generate has settled:
\* results.push(result), or the catch block's push.
AfterGenerate(r, generated) ==
    IF generated.kind = "returned"
    THEN [r EXCEPT !.results = Append(@, generated.value), !.i = @ + 1]
    ELSE [r EXCEPT
            !.results = Append(@, [ success     |-> FALSE,
                                    error       |-> generated.message,
                                    title       |-> SongTitle(r.title, r.count,
                                                              r.i),
                                    trackNumber |-> r.i + 1 ]),
            !.i = @ + 1]

InitSongs ==
    /\ run \in { [ title |-> t, count |-> n, callback |-> c, pc |-> "called",
                   i |-> 0, calls |-> <<>>, reports |-> <<>>,
                   results |-> <<>>, outcome |-> Pending ] :
                   t \in {"Song", ""}, n \in 0..MaxCount \cup {MaxSongs + 1},
                   c \in {"none", "returns", "throws"} }
    /\ ParseIdle
    /\ MatchIdle
    /\ ScanIdle

\* The checks of the options before the loop.
CheckOptions ==
    /\ run.pc = "called"
    /\ run' = IF run.title = "" \/ run.count = 0
              THEN [run EXCEPT !.pc = "done",
                      !.outcome =
                          Threw("Title, lyrics path, and count are required")]
              ELSE IF run.count < 1 \/ run.count > MaxSongs
              THEN [run EXCEPT !.pc = "done",
                      !.outcome = Threw("Count must be between 1 and 20")]
              ELSE [run EXCEPT !.pc = "loop"]
    /\ UNCHANGED <<parseVars, matchVars, scanVars>>

\* One turn of the for loop: the progress report, Generator.generate, and
\* the push of its result or of the failure.
GenerateSong ==
    /\ run.pc = "loop"
    /\ run.i < run.count
    /\ run.outcome = Pending
    /\ LET songTitle == SongTitle(run.title, run.count, run.i)
           reported  == reportProgress(run, "generating", run.i + 1)
           called    == [reported EXCEPT
                           !.calls = Append(@, [title |-> songTitle])]
       IN  IF run.callback = "throws"
           THEN run' = [reported EXCEPT !.pc = "done",
                          !.outcome = Threw("progressCallback threw")]
           ELSE \E generated \in
                     { Returned([ success |-> TRUE, filePath |-> songTitle,
                                  songId |-> "song-123" ]),
                       Threw("API Error"),
                       Threw("Generation timed out") } :
                   run' = AfterGenerate(called, generated)
    /\ UNCHANGED <<parseVars, matchVars, scanVars>>

\* After the loop: the 'complete' report and return results.
ReturnResults ==
    /\ run.pc = "loop"
    /\ run.i >= run.count
    /\ run.outcome = Pending
    /\ run' = [reportProgress(run, "complete", run.count) EXCEPT
                 !.pc = "done",
                 !.outcome = Returned(run.results)]
    /\ UNCHANGED <<parseVars, matchVars, scanVars>>

NextSongs == CheckOptions \/ GenerateSong \/ ReturnResults

SpecSongs == InitSongs /\ [][NextSongs]_vars

\* C25: generateMultipleSongs with 1 <= count <= 20 returns exactly count
\* entries, entry i describing song i + 1 in order; a failure while
\* generating one song is recorded at its index as {success: false, error,
\* ...} and the later songs are still generated, in order.  (The options
\* are the valid ones: a title, and a progress callback that returns.)
C25_OneEntryPerSong ==
    /\ (run.outcome # Pending /\ run.title # "" /\ run.count >= 1
        /\ run.count <= 20 /\ run.callback # "throws") =>
          /\ run.outcome.kind = "returned"
          /\ Len(run.outcome.value) = run.count
          /\ Len(run.calls) = run.count
    /\ run.outcome.kind = "returned" =>
          \A k \in DOMAIN run.outcome.value :
              LET entry == run.outcome.value[k]
                  named == IF run.count > 1 THEN <<run.title, k>>
                           ELSE <<run.title>>
              IN  /\ run.calls[k].title = named
                  /\ IF entry.success THEN entry.filePath = named
                     ELSE /\ entry.title = named
                          /\ entry.trackNumber = k
                          /\ entry.error \in {"API Error", "Generation timed out"}

\* Three songs asked for, the second failed: the result has the failure at
\* index 1 between two generated songs.
C25_Witness ==
    /\ "results" \in DOMAIN run
    /\ run.count = 3
    /\ run.outcome.kind = "returned"
    /\ run.outcome.value[1].success
    /\ ~run.outcome.value[2].success
    /\ run.outcome.value[2].trackNumber = 2
    /\ run.outcome.value[3].success
    /\ run.outcome.value[3].filePath = <<"Song", 3>>

-----------------------------------------------------------------------------
(* SpecPublish: one `publish <dir>` of the command line, step by step:     *)
(* CLI.handlePublishCommand and the Publisher.publish it calls.            *)
(* run.methods tells which of the methods the flow calls exist.  "tree":   *)
(* the classes as they are in the tree, where MetadataScanner has no       *)
(* hasMetadataFile, neither scanner a scanDirectory, TuneCoreClient no     *)
(* uploadRelease and FugaClient no createRelease, so that each call is a   *)
(* TypeError.  "flow": the methods exist and do what the flow takes them   *)
(* to do (metadata.json present; the platform scanner's album of the       *)
(* directory; one upload request answered with {id, status}).              *)
(* run.steps lists what has been done, run.failedAt the step that threw,   *)
(* run.requests what has been sent to a platform client.                   *)

SupportedPlatforms == {"fuga", "tunecore"}

FullConfig ==
    [ fuga     |-> [apiKey |-> "k", baseUrl |-> "u", apiToken |-> "t"],
      tunecore |-> [partnerId |-> "p", apiKey |-> "k", baseUrl |-> "u",
                    apiToken |-> "t"] ]

\* The configurations tried: complete; without the apiToken the clients'
\* constructors ask for; with an incomplete TuneCore part; FUGA only.
Configs ==
    { FullConfig,
      [ fuga     |-> [apiKey |-> "k", baseUrl |-> "u"],
        tunecore |-> [partnerId |-> "p", apiKey |-> "k", baseUrl |-> "u"] ],
      [ fuga     |-> [apiKey |-> "k", baseUrl |-> "u", apiToken |-> "t"],
        tunecore |-> [apiKey |-> "k"] ],
      [ fuga     |-> [apiKey |-> "k", baseUrl |-> "u", apiToken |-> "t"] ] }

\* The directories published: albums of TuneCore shape (complete, with one
\* audio file for two metadata tracks, without a tracks list, with broken
\* JSON) and of FUGA shape (one track, a track without title, no track).
PublishDirectories ==
    { [type |-> "dir", entries |-> l] :
        l \in { <<MetadataFile(MetadataAB), File(Wav1a), File(Wav2b)>>,
                <<MetadataFile(MetadataAB), File(Wav1a)>>,
                <<MetadataFile(MetadataNoTracks), File(Wav1a)>>,
                <<BrokenMetadataFile, File(Wav1a)>>,
                <<File(Wav1a)>>,
                <<File(<<"1", " ", ".", "w", "a", "v">>)>>,
                <<>> } }
    \cup {Absent}

\* Publisher.validateConfig(config, platform): the message thrown, or
\* <<>> when nothing is thrown.
validateConfig(config, platform) ==
    LET has(part, key) == key \in DOMAIN config[part]
    IN  IF platform = "fuga"
        THEN IF "fuga" \notin DOMAIN config
             THEN <<"FUGA configuration is required when publishing to FUGA">>
             ELSE IF ~has("fuga", "apiKey") \/ ~has("fuga", "baseUrl")
             THEN <<"FUGA configuration must include apiKey and baseUrl">>
             ELSE <<>>
        ELSE IF platform = "tunecore"
        THEN IF "tunecore" \notin DOMAIN config
             THEN <<"TuneCore configuration is required when publishing to TuneCore">>
             ELSE IF ~has("tunecore", "partnerId") \/ ~has("tunecore", "apiKey")
                     \/ ~has("tunecore", "baseUrl")
             THEN <<"TuneCore configuration must include partnerId, apiKey, and baseUrl">>
             ELSE <<>>
        ELSE <<"Unsupported platform">>

\* Publisher.detectPlatform(directoryPath) with the methods of r.
DetectedPlatform(r) ==
    IF r.methods = "tree" THEN detectPlatform(r.directory)
    ELSE Returned(IF Child(r.directory, MetadataJson).type = "file"
                  THEN "tunecore" ELSE "fuga")

\* Publisher.scanDirectory(directoryPath, platform) with the methods of r;
\* a scanner's null is kept as null.
scanDirectory(r, platform) ==
    LET tree    == DirOf(Artist1, DirOf(Album1, r.directory, Album2, Absent),
                         Artist2, Absent)
        scanned == IF platform = "tunecore"
                   THEN MetaScanSpecificAlbum(tree, Artist1, Album1)
                   ELSE FileScanSpecificAlbum(tree, Artist1, Album1)
    IN  IF platform \notin SupportedPlatforms THEN Threw("Unsupported platform")
        ELSE IF r.methods = "tree"
        THEN Threw("TypeError: scanDirectory is not a function")
        ELSE IF scanned.kind = "null" THEN Returned(NullObject)
        ELSE scanned

\* getPublishOptions on what scanDirectory returned: reading tracks (or
\* map) of null is a TypeError.
PublishOptionsOf(scanResult, platform) ==
    IF scanResult = NullObject /\ platform \in SupportedPlatforms
    THEN Threw("TypeError: Cannot read properties of null")
    ELSE getPublishOptions(scanResult, platform)

\* Publisher.publishToPlatform: the client's constructor, then the upload
\* call with the methods of r.  The requests sent, and the outcome.
publishToPlatform(r, platform, publishOptions) ==
    LET platformConfig == r.config[platform]
    IN  IF platform \notin SupportedPlatforms
        THEN [sent |-> <<>>, outcome |-> Threw("Unsupported platform")]
        ELSE IF "apiToken" \notin DOMAIN platformConfig
        THEN [sent |-> <<>>, outcome |-> Threw("API token is required")]
        ELSE IF platform = "tunecore" /\ "partnerId" \notin DOMAIN platformConfig
        THEN [sent |-> <<>>, outcome |-> Threw("Partner ID is required")]
        ELSE IF r.methods = "tree"
        THEN [sent |-> <<>>,
              outcome |-> Threw(IF platform = "tunecore"
                                THEN "TuneCore upload failed"
                                ELSE "FUGA upload failed")]
        ELSE [sent |-> << [ client  |-> platform,
                            release |-> publishOptions ] >>,
              outcome |-> Returned([id |-> "r1", status |-> "submitted"])]

\* process.exit(1) after 'Publication failed' (or 'Configuration
\* validation failed').
ExitFailed(r, step) ==
    [r EXCEPT !.failedAt = step, !.pc = "done",
              !.outcome = [kind |-> "exit", code |-> 1]]

\* publish after getPublishOptions: the upload, and how the run ends.
PublishUploadStep(r) ==
    LET upload == publishToPlatform(r, r.platform, r.publishOptions)
    IN  IF upload.outcome.kind = "threw"
        THEN [ExitFailed(r, "upload") EXCEPT !.requests = @ \o upload.sent]
        ELSE [r EXCEPT !.steps = Append(@, "upload"),
                       !.requests = @ \o upload.sent,
                       !.pc = "done",
                       !.outcome = [kind |-> "exit", code |-> 0]]

InitPublish ==
    /\ run \in { [ methods |-> m, directory |-> d, config |-> c,
                   option |-> o, dryRun |-> dry, pc |-> "cli",
                   platform |-> "", scanResult |-> NullObject,
                   publishOptions |-> NullObject, steps |-> <<>>,
                   failedAt |-> "", requests |-> <<>>,
                   outcome |-> Pending ] :
                   m \in {"tree", "flow"}, d \in PublishDirectories,
                   c \in Configs,
                   o \in {"", "tunecore", "fuga", "spotify"},
                   dry \in BOOLEAN }
    /\ ParseIdle
    /\ MatchIdle
    /\ ScanIdle

\* handlePublishCommand: the platform of --platform, or the detected one.
CliPlatform ==
    /\ run.pc = "cli"
    /\ run' = IF run.option # ""
              THEN IF run.option \notin SupportedPlatforms
                   THEN ExitFailed(run, "platform")
                   ELSE [run EXCEPT !.platform = run.option,
                                    !.steps = Append(@, "platform"),
                                    !.pc = "cliConfig"]
              ELSE LET detected == DetectedPlatform(run)
                   IN  IF detected.kind = "threw"
                       THEN ExitFailed(run, "detect")
                       ELSE [run EXCEPT !.platform = detected.value,
                                        !.steps = Append(@, "detect"),
                                        !.pc = "cliConfig"]
    /\ UNCHANGED <<parseVars, matchVars, scanVars>>

\* handlePublishCommand: validateConfig, then the dry run or publish.
CliValidateConfig ==
    /\ run.pc = "cliConfig"
    /\ run' = IF validateConfig(run.config, run.platform) # <<>>
              THEN ExitFailed(run, "config")
              ELSE [run EXCEPT !.steps = Append(@, "config"),
                               !.pc = IF run.dryRun THEN "dryRun"
                                      ELSE "publish"]
    /\ UNCHANGED <<parseVars, matchVars, scanVars>>

\* handlePublishCommand with --dry-run: scanDirectory, getPublishOptions,
\* 'Validation completed successfully'.
CliDryRun ==
    /\ run.pc = "dryRun"
    /\ LET scanned == scanDirectory(run, run.platform)
           options == PublishOptionsOf(scanned.value, run.platform)
       IN  run' = IF scanned.kind = "threw" THEN ExitFailed(run, "scan")
                  ELSE IF options.kind = "threw"
                  THEN ExitFailed([run EXCEPT !.steps = Append(@, "scan"),
                                              !.scanResult = scanned.value],
                                  "options")
                  ELSE [run EXCEPT !.steps = @ \o <<"scan", "options">>,
                                   !.scanResult = scanned.value,
                                   !.publishOptions = options.value,
                                   !.pc = "done",
                                   !.outcome = [kind |-> "exit", code |-> 0]]
    /\ UNCHANGED <<parseVars, matchVars, scanVars>>

\* publish: const platform = await this.detectPlatform(directoryPath).
PublishDetect ==
    /\ run.pc = "publish"
    /\ LET detected == DetectedPlatform(run)
       IN  run' = IF detected.kind = "threw" THEN ExitFailed(run, "detect")
                  ELSE [run EXCEPT !.platform = detected.value,
                                   !.steps = Append(@, "detect"),
                                   !.pc = "publishConfig"]
    /\ UNCHANGED <<parseVars, matchVars, scanVars>>

\* publish: this.validateConfig(config, platform).
PublishValidateConfig ==
    /\ run.pc = "publishConfig"
    /\ run' = IF validateConfig(run.config, run.platform) # <<>>
              THEN ExitFailed(run, "config")
              ELSE [run EXCEPT !.steps = Append(@, "config"),
                               !.pc = "publishScan"]
    /\ UNCHANGED <<parseVars, matchVars, scanVars>>

\* publish: const scanResult = await this.scanDirectory(...).
PublishScan ==
    /\ run.pc = "publishScan"
    /\ LET scanned == scanDirectory(run, run.platform)
       IN  run' = IF scanned.kind = "threw" THEN ExitFailed(run, "scan")
                  ELSE [run EXCEPT !.steps = Append(@, "scan"),
                                   !.scanResult = scanned.value,
                                   !.pc = "publishOptions"]
    /\ UNCHANGED <<parseVars, matchVars, scanVars>>

\* publish: const publishOptions = await this.getPublishOptions(...).
PublishBuildOptions ==
    /\ run.pc = "publishOptions"
    /\ LET options == PublishOptionsOf(run.scanResult, run.platform)
       IN  run' = IF options.kind = "threw" THEN ExitFailed(run, "options")
                  ELSE [run EXCEPT !.steps = Append(@, "options"),
                                   !.publishOptions = options.value,
                                   !.pc = "publishUpload"]
    /\ UNCHANGED <<parseVars, matchVars, scanVars>>

\* publish: publishToPlatform, the returned result and the report of the
\* command line, or 'Publishing failed' and process.exit(1).
PublishUpload ==
    /\ run.pc = "publishUpload"
    /\ run' = PublishUploadStep(run)
    /\ UNCHANGED <<parseVars, matchVars, scanVars>>

NextPublish ==
    \/ CliPlatform
    \/ CliValidateConfig
    \/ CliDryRun
    \/ PublishDetect
    \/ PublishValidateConfig
    \/ PublishScan
    \/ PublishBuildOptions
    \/ PublishUpload

SpecPublish == InitPublish /\ [][NextPublish]_vars

\* The scanned album does not pass the validation of its platform.
FailsValidation(scanResult, platform) ==
    LET validated == IF platform = "tunecore"
                     THEN validateAlbumData(scanResult)
                     ELSE validateAlbumStructure(scanResult)
    IN  validated.kind = "threw" \/ ~validated.value.valid

=============================================================================
